---- MODULE Spec2Model ----
(***************************************************************************)
(* A model of the /api/news handler of music-news-24h-web.                 *)
(*                                                                         *)
(* Text is modelled by TLA+ strings, on which Len, SubSeq and \o act as    *)
(* on sequences of characters.  An instant is a number of milliseconds     *)
(* counted from the model's epoch.  A JavaScript number that may be NaN or *)
(* fractional (the hours parameter) is a record [nan, milli], milli being  *)
(* the value in thousandths.                                               *)
(***************************************************************************)
EXTENDS Integers, Sequences, FiniteSets, TLC

VARIABLES
    clock,      \* Date.now()
    tlCache,    \* the Map tlCache: key -> [t, titleJa, summaryJa]
    feedsCache, \* the module variable feedsCache: [at, feeds]
    env,        \* process.env: whether DEEPL_AUTH_KEY and FEEDS_CSV_URL are set
    req,        \* per request: the handler's locals and its position
    probe       \* the argument and the result of a pickGenre call made on its own

vars == <<clock, tlCache, feedsCache, env, req, probe>>

----------------------------------------------------------------------------
(* JavaScript values *)

\* null / undefined of a string-valued field
Null == "<null>"

\* x || d for a string-or-null x
OrElse(x, d) == IF x = Null \/ x = "" THEN d ELSE x

\* the elements of an array
Range(s) == {s[i] : i \in 1..Len(s)}

Min(a, b) == IF a < b THEN a ELSE b
Max(a, b) == IF a > b THEN a ELSE b

IsSpace(c) == c \in {" ", "\t", "\n", "\r"}

Upper == "ABCDEFGHIJKLMNOPQRSTUVWXYZ"
Lower == "abcdefghijklmnopqrstuvwxyz"
Digits == "0123456789"

\* the position of the one-character string c in s, 0 when absent
IndexOf(s, c) ==
    LET at == {i \in 1..Len(s) : SubSeq(s, i, i) = c}
    IN  IF at = {} THEN 0 ELSE CHOOSE i \in at : \A j \in at : i <= j

CharsOf(s) == {SubSeq(s, i, i) : i \in 1..Len(s)}

Letters == CharsOf(Upper) \cup CharsOf(Lower)
IsLetter(c) == c \in Letters

\* the lower-case letter of each upper-case letter
LowerOf == [c \in CharsOf(Upper) |-> SubSeq(Lower, IndexOf(Upper, c), IndexOf(Upper, c))]

\* the upper-case letter of each lower-case letter
UpperOf == [c \in CharsOf(Lower) |-> SubSeq(Upper, IndexOf(Lower, c), IndexOf(Lower, c))]

\* the value of each decimal digit
DigitValue == [c \in CharsOf(Digits) |-> IndexOf(Digits, c) - 1]

\* String.prototype.toLowerCase
RECURSIVE ToLowerCase(_)
ToLowerCase(s) ==
    IF s = "" THEN ""
    ELSE LET c == SubSeq(s, 1, 1)
         IN  (IF c \in DOMAIN LowerOf THEN LowerOf[c] ELSE c)
                 \o ToLowerCase(SubSeq(s, 2, Len(s)))

\* String.prototype.toUpperCase
RECURSIVE ToUpperCase(_)
ToUpperCase(s) ==
    IF s = "" THEN ""
    ELSE LET c == SubSeq(s, 1, 1)
         IN  (IF c \in DOMAIN UpperOf THEN UpperOf[c] ELSE c)
                 \o ToUpperCase(SubSeq(s, 2, Len(s)))

\* String.prototype.trim
RECURSIVE TrimStart(_)
TrimStart(s) ==
    IF s # "" /\ IsSpace(SubSeq(s, 1, 1)) THEN TrimStart(SubSeq(s, 2, Len(s))) ELSE s

RECURSIVE TrimEnd(_)
TrimEnd(s) ==
    IF s # "" /\ IsSpace(SubSeq(s, Len(s), Len(s)))
    THEN TrimEnd(SubSeq(s, 1, Len(s) - 1)) ELSE s

Trim(s) == TrimEnd(TrimStart(s))

\* String.prototype.slice(0, n)
Slice0(s, n) == SubSeq(s, 1, Min(Len(s), n))

\* String.prototype.replace(/\s+/g, " ")
RECURSIVE CollapseWs(_)
CollapseWs(s) ==
    IF s = "" THEN ""
    ELSE IF IsSpace(SubSeq(s, 1, 1))
         THEN " " \o CollapseWs(TrimStart(s))
         ELSE SubSeq(s, 1, 1) \o CollapseWs(SubSeq(s, 2, Len(s)))

\* Array.prototype.slice(0, n)
Slice0Seq(s, n) == SubSeq(s, 1, Min(Len(s), n))

\* String.prototype.includes
Includes(text, kw) ==
    \E i \in 1..(Len(text) - Len(kw) + 1) : SubSeq(text, i, i + Len(kw) - 1) = kw


----------------------------------------------------------------------------
(* Numbers *)

NaN == [nan |-> TRUE, v |-> 0]
Num(x) == [nan |-> FALSE, v |-> x]

IsDigits(s) == s # "" /\ \A i \in 1..Len(s) : SubSeq(s, i, i) \in DOMAIN DigitValue

\* the value of a string of decimal digits
RECURSIVE DigitsValue(_)
DigitsValue(s) ==
    IF s = "" THEN 0
    ELSE 10 * DigitsValue(SubSeq(s, 1, Len(s) - 1))
            + DigitValue[SubSeq(s, Len(s), Len(s))]

\* Number(s) for a string s, in thousandths: white space is trimmed, the empty
\* string is 0, an optional sign and a decimal literal with at most three
\* fraction digits are read, and anything else is NaN.
StringToNumber(s) ==
    LET t    == Trim(s)
        neg  == t # "" /\ SubSeq(t, 1, 1) = "-"
        u    == IF neg \/ (t # "" /\ SubSeq(t, 1, 1) = "+") THEN SubSeq(t, 2, Len(t)) ELSE t
        dot  == IndexOf(u, ".")
        ip   == IF dot = 0 THEN u ELSE SubSeq(u, 1, dot - 1)
        fp   == IF dot = 0 THEN "" ELSE SubSeq(u, dot + 1, Len(u))
        fp3  == fp \o SubSeq("000", 1, 3 - Len(fp))
        sign == IF neg THEN -1 ELSE 1
    IN  IF t = "" THEN Num(0)
        ELSE IF dot = 0 /\ IsDigits(ip) THEN Num(sign * 1000 * DigitsValue(ip))
        ELSE IF dot > 0 /\ (ip = "" \/ IsDigits(ip)) /\ (fp = "" \/ IsDigits(fp))
                /\ (ip # "" \/ fp # "") /\ Len(fp) <= 3
             THEN Num(sign * (1000 * DigitsValue(ip) + DigitsValue(fp3)))
        ELSE NaN

\* Math.min and Math.max: NaN when either argument is NaN
MathMin(a, b) == IF a.nan \/ b.nan THEN NaN ELSE Num(Min(a.v, b.v))
MathMax(a, b) == IF a.nan \/ b.nan THEN NaN ELSE Num(Max(a.v, b.v))

\* a < b on numbers: false when either is NaN
NumLess(a, b) == ~a.nan /\ ~b.nan /\ a.v < b.v

\* Math.max(1, Math.min(72, Number(req.query?.hours ?? 24))), in thousandths
hoursOf(query) ==
    MathMax(Num(1000), MathMin(Num(72000),
        IF query = Null THEN Num(24000) ELSE StringToNumber(query)))

\* Date.now() - hours * 60 * 60 * 1000
sinceOf(now, hours) == IF hours.nan THEN NaN ELSE Num(now - hours.v * 3600)

----------------------------------------------------------------------------
(* Dates.  A date string that Date can parse is modelled by the decimal digits
   of its instant; every other string is one Date cannot parse.  toISOString
   renders an instant in fields of fixed width, the most significant first: the
   model renders it as IsoWidth decimal digits, which orders the same way. *)

IsoWidth == 10

\* new Date(raw).getTime()
DateParse(raw) ==
    IF IsDigits(raw) /\ Len(raw) <= IsoWidth THEN Num(DigitsValue(raw)) ELSE NaN

RECURSIVE Zeros(_)
Zeros(n) == IF n <= 0 THEN "" ELSE "0" \o Zeros(n - 1)

toISOString(ms) == LET d == ToString(ms) IN Zeros(IsoWidth - Len(d)) \o d

toIso(d) == LET dt == DateParse(d) IN IF dt.nan THEN Null ELSE toISOString(dt.v)

\* the rank of a character in the collation: digits in their order
CharRank(c) == IF c \in DOMAIN DigitValue THEN DigitValue[c] + 1 ELSE 0

\* a.localeCompare(b): negative, zero or positive
localeCompare(a, b) ==
    IF a = b THEN 0
    ELSE LET n == Min(Len(a), Len(b))
             D == {i \in 1..n : SubSeq(a, i, i) # SubSeq(b, i, i)}
         IN  IF D = {} THEN (IF Len(a) < Len(b) THEN -1 ELSE 1)
             ELSE LET i == CHOOSE i \in D : \A j \in D : i <= j
                  IN  IF CharRank(SubSeq(a, i, i)) < CharRank(SubSeq(b, i, i))
                      THEN -1 ELSE 1

----------------------------------------------------------------------------
(* Translation helpers *)

\* (s.match(/[A-Za-z]/g) || []).length
CountLetters(s) == Cardinality({i \in 1..Len(s) : IsLetter(SubSeq(s, i, i))})

\* (s.match(/\S/g) || []).length
CountNonSpace(s) == Cardinality({i \in 1..Len(s) : ~IsSpace(SubSeq(s, i, i))})

\* letters / nonSpace > 0.45
looksEnglish(text) ==
    LET letters  == CountLetters(text)
        nonSpace == IF CountNonSpace(text) = 0 THEN 1 ELSE CountNonSpace(text)
    IN  letters * 100 > 45 * nonSpace

TL_TTL_MS == 21600000
TRANSLATE_LIMIT == 40

----------------------------------------------------------------------------
(* Genre rules.  Kanji keywords are written in katakana (実験 as ジッケン, 日本 as
   ニホン, 東京 as トウキョウ, 渋谷 as シブヤ, 邦楽 as ホウガク). *)

GENRES == <<
    [name |-> "Techno",       keywords |-> <<"techno", "テクノ">>],
    [name |-> "House",        keywords |-> <<"house", "ハウス", "deep house", "ディープハウス">>],
    [name |-> "Drum & Bass",  keywords |-> <<"drum & bass", "dnb", "drum and bass", "ドラムンベース">>],
    [name |-> "Dubstep",      keywords |-> <<"dubstep", "ダブステップ">>],
    [name |-> "UK Garage",    keywords |-> <<"ukg", "garage", "uk garage", "2-step", "2step",
                                             "ガラージ", "ツーステップ">>],
    [name |-> "Ambient",      keywords |-> <<"ambient", "アンビエント">>],
    [name |-> "Experimental", keywords |-> <<"experimental", "avant", "アヴァン", "ジッケン",
                                             "noise", "ノイズ">>],
    [name |-> "Hip-Hop",      keywords |-> <<"hip-hop", "hip hop", "rap", "ラップ", "ヒップホップ">>],
    [name |-> "Metal",        keywords |-> <<"metal", "hardcore", "ハードコア", "メタル">>],
    [name |-> "Rock",         keywords |-> <<"rock", "indie", "punk", "ロック", "パンク">>],
    [name |-> "Pop",          keywords |-> <<"pop", "アイドル", "シングル", "mv", "music video">>],
    [name |-> "Japan",        keywords |-> <<"ニホン", "トウキョウ", "シブヤ", "j-pop", "ホウガク">>] >>

\* kw.toLowerCase() of every keyword
LoweredKeywords ==
    [i \in 1..Len(GENRES) |->
        [j \in 1..Len(GENRES[i].keywords) |-> ToLowerCase(GENRES[i].keywords[j])]]

\* for (const kw of g.keywords) if (text.includes(kw.toLowerCase())) ...
RECURSIVE KeywordLoop(_, _, _)
KeywordLoop(text, kws, j) ==
    IF j > Len(kws) THEN FALSE
    ELSE IF Includes(text, kws[j]) THEN TRUE
    ELSE KeywordLoop(text, kws, j + 1)

\* the scan with the last matching rule winning
RECURSIVE GenreLoopLast(_, _)
GenreLoopLast(text, i) ==
    IF i > Len(GENRES) THEN ""
    ELSE LET later == GenreLoopLast(text, i + 1)
         IN  IF later # "" THEN later
             ELSE IF KeywordLoop(text, LoweredKeywords[i], 1) THEN GENRES[i].name
             ELSE ""

\* for (const g of GENRES) ... return g.name; after the loop: ""
RECURSIVE GenreLoop(_, _)
GenreLoop(text, i) ==
    IF i > Len(GENRES) THEN ""
    ELSE IF KeywordLoop(text, LoweredKeywords[i], 1) THEN GENRES[i].name
    ELSE GenreLoop(text, i + 1)

pickGenre(title, source, fallback) ==
    LET text == ToLowerCase(title \o " " \o source)
        hit  == GenreLoop(text, 1)
    IN  IF hit # "" THEN hit ELSE OrElse(fallback, "Other")

----------------------------------------------------------------------------
(* Feed sources *)

NumFeeds == 2

\* NumFeeds consecutive descriptors of the static list, from its second on
FEEDS_FALLBACK == SubSeq(<<
    [source |-> "Pitchfork (News)",          url |-> "https://pitchfork.com/feed/feed-news/rss",          defaultGenre |-> "Pop"],
    [source |-> "Pitchfork (Album Reviews)", url |-> "https://pitchfork.com/feed/feed-album-reviews/rss", defaultGenre |-> "Pop"],
    [source |-> "Mixmag",                    url |-> "https://mixmag.net/rss.xml",                        defaultGenre |-> "Techno"],
    [source |-> "The Quietus",               url |-> "https://thequietus.com/feed",                       defaultGenre |-> "Experimental"],
    [source |-> "Stereogum",                 url |-> "https://www.stereogum.com/feed",                    defaultGenre |-> "Rock"],
    [source |-> "Consequence",               url |-> "http://consequenceofsound.net/feed",                defaultGenre |-> "Rock"],
    [source |-> "EDM.com",                   url |-> "https://edm.com/.rss/full/",                        defaultGenre |-> "House"],
    [source |-> "オンガクナタリー",           url |-> "http://natalie.mu/music/feed/news",                 defaultGenre |-> "Japan"] >>,
    2, NumFeeds + 1)

FEEDS_CACHE_MS == 600000

\* the first position from i on of text that holds a character of cs, or
\* Len(text) + 1
NextOf(text, i, cs) ==
    LET at == {k \in i..Len(text) : SubSeq(text, k, k) \in cs}
    IN  IF at = {} THEN Len(text) + 1 ELSE CHOOSE k \in at : \A m \in at : k <= m

\* parseCsv, lines 74-123: the scan of text from position i (counted from 1);
\* st is [rows, row, cell, inQuotes].  A run of characters that the loop only
\* appends to cell (lines 89-90 and 121-122) is taken in one step.
RECURSIVE CsvScan(_, _, _)
CsvScan(text, i, st) ==
    IF i > Len(text) THEN st
    ELSE LET ch   == SubSeq(text, i, i)
             next == IF i + 1 <= Len(text) THEN SubSeq(text, i + 1, i + 1) ELSE Null
         IN  IF st.inQuotes
             THEN IF ch = "\"" /\ next = "\""
                  THEN CsvScan(text, i + 2, [st EXCEPT !.cell = @ \o "\""])
                  ELSE IF ch = "\""
                  THEN CsvScan(text, i + 1, [st EXCEPT !.inQuotes = FALSE])
                  ELSE LET k == NextOf(text, i, {"\""})
                       IN  CsvScan(text, k, [st EXCEPT !.cell = @ \o SubSeq(text, i, k - 1)])
             ELSE IF ch = "\""
             THEN CsvScan(text, i + 1, [st EXCEPT !.inQuotes = TRUE])
             ELSE IF ch = ","
             THEN CsvScan(text, i + 1, [st EXCEPT !.row = Append(@, st.cell), !.cell = ""])
             ELSE IF ch = "\n"
             THEN CsvScan(text, i + 1,
                          [st EXCEPT !.rows = Append(@, Append(st.row, st.cell)),
                                     !.row = <<>>, !.cell = ""])
             ELSE IF ch = "\r"
             THEN CsvScan(text, i + 1, st)
             ELSE LET k == NextOf(text, i, {"\"", ",", "\n", "\r"})
                  IN  CsvScan(text, k, [st EXCEPT !.cell = @ \o SubSeq(text, i, k - 1)])

\* lines 68-129: the rows of cells of text, the tail flushed
CsvRows(text) ==
    LET st == CsvScan(text, 1, [rows |-> <<>>, row |-> <<>>, cell |-> "", inQuotes |-> FALSE])
    IN  IF Len(st.cell) > 0 \/ Len(st.row) > 0
        THEN Append(st.rows, Append(st.row, st.cell)) ELSE st.rows

\* lines 141-144: the object of one row, a function from the header names; a
\* name that heads several columns takes the last of them
CsvObject(header, cols) ==
    [h \in Range(header) |->
        LET c == CHOOSE c \in 1..Len(header) :
                    header[c] = h /\ \A d \in 1..Len(header) : header[d] = h => d <= c
        IN  IF c <= Len(cols) THEN Trim(cols[c]) ELSE ""]

\* lines 131-148
parseCsv(text) ==
    LET rows   == CsvRows(text)
        header == [c \in 1..Len(rows[1]) |-> Trim(rows[1][c])]
        kept   == SelectSeq([r \in 1..(Len(rows) - 1) |-> rows[r + 1]],
                            LAMBDA cols : \E c \in 1..Len(cols) : Trim(cols[c]) # "")
    IN  IF Len(rows) = 0 THEN <<>>
        ELSE [r \in 1..Len(kept) |-> CsvObject(header, kept[r])]

\* r.k ?? d
Field(r, k, d) == IF k \in DOMAIN r THEN r[k] ELSE d

\* a filter that compares the enabled column with FALSE as it is written
feedsOfRowsLiteral(rows) ==
    LET enabled == SelectSeq(rows, LAMBDA r : Field(r, "enabled", "") # "FALSE")
        mapped  == [n \in 1..Len(enabled) |->
                    [source       |-> Trim(Field(enabled[n], "source", "")),
                     url          |-> Trim(Field(enabled[n], "url", "")),
                     defaultGenre |-> OrElse(Trim(Field(enabled[n], "defaultGenre", "Other")),
                                             "Other")]]
    IN  SelectSeq(mapped, LAMBDA f : f.source # "" /\ f.url # "")

\* lines 171-182: the descriptors of the rows that are enabled and have a
\* source and a url
feedsOfRows(rows) ==
    LET enabled == SelectSeq(rows,
                    LAMBDA r : ToUpperCase(Trim(Field(r, "enabled", ""))) # "FALSE")
        mapped  == [n \in 1..Len(enabled) |->
                    [source       |-> Trim(Field(enabled[n], "source", "")),
                     url          |-> Trim(Field(enabled[n], "url", "")),
                     defaultGenre |-> OrElse(Trim(Field(enabled[n], "defaultGenre", "Other")),
                                             "Other")]]
    IN  SelectSeq(mapped, LAMBDA f : f.source # "" /\ f.url # "")

\* line 156: feedsCache.feeds && now - feedsCache.at < FEEDS_CACHE_MS; feeds is
\* an array, which is truthy whatever its length
feedsCacheFresh(now, cache) == now - cache.at < FEEDS_CACHE_MS

\* lines 155-161, loadFeeds where it returns without a fetch: [feeds, cache],
\* the list returned and the value feedsCache has afterwards
loadFeeds(now, cache) ==
    IF feedsCacheFresh(now, cache)
    THEN [feeds |-> cache.feeds, cache |-> cache]
    ELSE [feeds |-> FEEDS_FALLBACK, cache |-> [at |-> now, feeds |-> FEEDS_FALLBACK]]

\* lines 156-164: loadFeeds goes on to fetch(FEEDS_CSV_URL)
loadFeedsAwaits(now, cache, csvUrl) == ~feedsCacheFresh(now, cache) /\ csvUrl

\* a load that keeps the list of the table even when it is empty
loadFeedsOkNoFallback(now, csv) ==
    [feeds |-> feedsOfRows(parseCsv(csv)),
     cache |-> [at |-> now, feeds |-> feedsOfRows(parseCsv(csv))]]

\* lines 167-185: the table arrived; now is the time the call began
loadFeedsOk(now, csv) ==
    LET feeds == feedsOfRows(parseCsv(csv))
        used  == IF Len(feeds) > 0 THEN feeds ELSE FEEDS_FALLBACK
    IN  [feeds |-> used, cache |-> [at |-> now, feeds |-> used]]

\* a catch that returns the static list and leaves feedsCache.at at 0
loadFeedsCatchNoStamp(now) ==
    [feeds |-> FEEDS_FALLBACK, cache |-> [at |-> 0, feeds |-> FEEDS_FALLBACK]]

\* lines 186-190: fetch rejected, or the status was not OK
loadFeedsCatch(now) ==
    [feeds |-> FEEDS_FALLBACK, cache |-> [at |-> now, feeds |-> FEEDS_FALLBACK]]

----------------------------------------------------------------------------
(* Normalization of one parsed entry.  An entry is a record of the fields the
   handler reads, Null for a field the parser did not set. *)

\* it.isoDate || it.pubDate || it.published || it.updated
publishedRawOf(it) ==
    OrElse(it.isoDate, OrElse(it.pubDate, OrElse(it.published, OrElse(it.updated, Null))))

publishedMsOf(it) ==
    LET publishedRaw == publishedRawOf(it)
    IN  IF publishedRaw # Null THEN DateParse(publishedRaw) ELSE NaN

titleOf(it) == Trim(OrElse(it.title, ""))
urlOf(it) == Trim(OrElse(it.link, OrElse(it.guid, "")))

summaryOf(it) ==
    OrElse(Slice0(Trim(CollapseWs(OrElse(it.contentSnippet, OrElse(it.summary, "")))), 240), Null)

\* the date test without the window
DateRejectedNoWindow(publishedMs, since) == publishedMs.nan

\* if (!Number.isFinite(publishedMs) || publishedMs < since) continue;
DateRejected(publishedMs, since) == publishedMs.nan \/ NumLess(publishedMs, since)

\* the text test without the title
TextRejectedUrlOnly(title, url) == url = ""

\* if (!title || !url) continue;
TextRejected(title, url) == title = "" \/ url = ""

\* the items one entry pushes on allItems: none or one
ItemsOfEntry(it, f, since) ==
    IF DateRejected(publishedMsOf(it), since) THEN <<>>
    ELSE IF TextRejected(titleOf(it), urlOf(it)) THEN <<>>
    ELSE << [id             |-> f.source \o "::" \o urlOf(it),
             title          |-> titleOf(it),
             url            |-> urlOf(it),
             source         |-> f.source,
             publishedAt    |-> toIso(publishedRawOf(it)),
             summary        |-> summaryOf(it),
             _fallbackGenre |-> f.defaultGenre] >>

\* for (const it of feed.items || []) ...
RECURSIVE ItemsOfFeed(_, _, _)
ItemsOfFeed(items, f, since) ==
    IF items = <<>> THEN <<>>
    ELSE ItemsOfEntry(Head(items), f, since) \o ItemsOfFeed(Tail(items), f, since)

----------------------------------------------------------------------------
(* Sorting and de-duplication *)

\* the comparison with its arguments exchanged: oldest first
compareItemsOldestFirst(a, b) == localeCompare(OrElse(a.publishedAt, ""), OrElse(b.publishedAt, ""))

\* (a, b) => (b.publishedAt || "").localeCompare(a.publishedAt || "")
compareItems(a, b) == localeCompare(OrElse(b.publishedAt, ""), OrElse(a.publishedAt, ""))

\* x put into the sorted sequence s behind every element it does not precede
RECURSIVE InsertSorted(_, _)
InsertSorted(s, x) ==
    IF s = <<>> THEN <<x>>
    ELSE IF compareItems(x, Head(s)) < 0 THEN <<x>> \o s
    ELSE <<Head(s)>> \o InsertSorted(Tail(s), x)

\* Array.prototype.sort with compareItems: a stable sort
RECURSIVE SortItems(_)
SortItems(s) ==
    IF s = <<>> THEN <<>>
    ELSE InsertSorted(SortItems(SubSeq(s, 1, Len(s) - 1)), s[Len(s)])

\* if (seen.has(key)) continue; seen.add(key); deduped.push(item);
RECURSIVE DedupeLoop(_, _)
DedupeLoop(s, seen) ==
    IF s = <<>> THEN <<>>
    ELSE IF Head(s).url \in seen THEN DedupeLoop(Tail(s), seen)
    ELSE <<Head(s)>> \o DedupeLoop(Tail(s), seen \cup {Head(s).url})

\* the de-duplication of the items as collected, without the sort
dedupeNoSort(allItems) == DedupeLoop(allItems, {})

\* the sort alone
dedupeNoSeen(allItems) == SortItems(allItems)

dedupe(allItems) == DedupeLoop(SortItems(allItems), {})

----------------------------------------------------------------------------
(* The translation stage *)

\* deduped.filter((it) => looksEnglish(it.title)), as positions in deduped
targetsOf(deduped) == SelectSeq([i \in 1..Len(deduped) |-> i],
                                LAMBDA i : looksEnglish(deduped[i].title))

\* the candidates without the limit
limitedTargetsNoLimit(deduped) == targetsOf(deduped)

\* targets.slice(0, TRANSLATE_LIMIT)
limitedTargetsOf(deduped) == Slice0Seq(targetsOf(deduped), TRANSLATE_LIMIT)

cacheKey(t) == t.title \o "|||" \o OrElse(t.summary, "")

\* a cache that never answers
CacheLiveNever(cache, key, now) == FALSE

\* a cache whose entries never expire
CacheLiveNoExpiry(cache, key, now) == key \in DOMAIN cache

\* hit && now - hit.t < TL_TTL_MS
CacheLive(cache, key, now) == key \in DOMAIN cache /\ now - cache[key].t < TL_TTL_MS

\* the loop over limitedTargets from position i: [deduped, index, need]
RECURSIVE LookupLoop(_, _, _, _, _)
LookupLoop(st, limitedTargets, i, cache, now) ==
    IF i > Len(limitedTargets) THEN st
    ELSE LET t   == st.deduped[limitedTargets[i]]
             key == cacheKey(t)
         IN  IF CacheLive(cache, key, now)
             THEN LookupLoop(
                    [st EXCEPT !.deduped[limitedTargets[i]] =
                        [titleJa |-> cache[key].titleJa,
                         summaryJa |-> cache[key].summaryJa] @@ t],
                    limitedTargets, i + 1, cache, now)
             ELSE LookupLoop(
                    [st EXCEPT !.index = Append(@, <<i, key>>),
                               !.need = @ \o <<t.title, Slice0(OrElse(t.summary, ""), 400)>>],
                    limitedTargets, i + 1, cache, now)

\* out[n], n counted from 0, an empty string kept as it is
OutAtRaw(out, n) == IF n + 1 <= Len(out) THEN out[n + 1] ELSE Null

\* out[n] || null, n counted from 0
OutAt(out, n) == IF n + 1 <= Len(out) THEN OrElse(out[n + 1], Null) ELSE Null

\* a write-back that reads the output at the position of the target rather
\* than at the position of the miss
RECURSIVE WriteBackLoopByTarget(_, _, _, _, _, _)
WriteBackLoopByTarget(st, limitedTargets, index, out, now, k) ==
    IF k >= Len(index) THEN st
    ELSE LET i         == index[k + 1][1]
             key       == index[k + 1][2]
             titleJa   == OutAt(out, (i - 1) * 2)
             summaryJa == OutAt(out, (i - 1) * 2 + 1)
             entry     == [t |-> now, titleJa |-> titleJa, summaryJa |-> summaryJa]
         IN  WriteBackLoopByTarget(
                [deduped |-> [st.deduped EXCEPT ![limitedTargets[i]] =
                                [titleJa |-> titleJa, summaryJa |-> summaryJa] @@ @],
                 cache   |-> (key :> entry) @@ st.cache],
                limitedTargets, index, out, now, k + 1)

\* a write-back that sets the fields of an entry one at a time and keeps the
\* summaryJa of an entry another request has written
RECURSIVE WriteBackLoopMerging(_, _, _, _, _, _)
WriteBackLoopMerging(st, limitedTargets, index, out, now, k) ==
    IF k >= Len(index) THEN st
    ELSE LET i         == index[k + 1][1]
             key       == index[k + 1][2]
             titleJa   == OutAt(out, k * 2)
             summaryJa == OutAt(out, k * 2 + 1)
             entry     == [t |-> now, titleJa |-> titleJa,
                           summaryJa |-> IF key \in DOMAIN st.cache
                                         THEN st.cache[key].summaryJa ELSE summaryJa]
         IN  WriteBackLoopMerging(
                [deduped |-> [st.deduped EXCEPT ![limitedTargets[i]] =
                                [titleJa |-> titleJa, summaryJa |-> summaryJa] @@ @],
                 cache   |-> (key :> entry) @@ st.cache],
                limitedTargets, index, out, now, k + 1)

\* the write-back loop from position k (counted from 0): [deduped, cache]
RECURSIVE WriteBackLoop(_, _, _, _, _, _)
WriteBackLoop(st, limitedTargets, index, out, now, k) ==
    IF k >= Len(index) THEN st
    ELSE LET i         == index[k + 1][1]
             key       == index[k + 1][2]
             titleJa   == OutAt(out, k * 2)
             summaryJa == OutAt(out, k * 2 + 1)
             entry     == [t |-> now, titleJa |-> titleJa, summaryJa |-> summaryJa]
         IN  WriteBackLoop(
                [deduped |-> [st.deduped EXCEPT ![limitedTargets[i]] =
                                [titleJa |-> titleJa, summaryJa |-> summaryJa] @@ @],
                 cache   |-> (key :> entry) @@ st.cache],
                limitedTargets, index, out, now, k + 1)

\* if (out && out.length) { ... }
writeBack(deduped, cache, limitedTargets, index, out, now) ==
    IF Len(out) > 0
    THEN WriteBackLoop([deduped |-> deduped, cache |-> cache],
                       limitedTargets, index, out, now, 0)
    ELSE [deduped |-> deduped, cache |-> cache]

----------------------------------------------------------------------------
(* Response assembly *)

\* an item emitted as it is
cleanNothing(it) == it

\* const { _fallbackGenre, ...clean } = it;
clean(it) == [k \in DOMAIN it \ {"_fallbackGenre"} |-> it[k]]

genreOf(it) == pickGenre(it.title, it.source, it._fallbackGenre)

\* the genres object as the sequence of its [name, items] properties, in the
\* order of their creation
RECURSIVE GroupLoop(_, _)
GroupLoop(items, genres) ==
    IF items = <<>> THEN genres
    ELSE LET it == Head(items)
             g  == genreOf(it)
             at == {n \in 1..Len(genres) : genres[n].name = g}
         IN  IF at = {}
             THEN GroupLoop(Tail(items), Append(genres, [name |-> g, items |-> <<clean(it)>>]))
             ELSE LET n == CHOOSE n \in at : TRUE
                  IN  GroupLoop(Tail(items),
                                [genres EXCEPT ![n].items = Append(@, clean(it))])

\* res.status(200).json({...})
response200(now, hours, FEEDS, deduped) ==
    [status      |-> 200,
     generatedAt |-> toISOString(now),
     hours       |-> hours,
     feedCount   |-> Len(FEEDS),
     totalItems  |-> Len(deduped),
     genres      |-> GroupLoop(deduped, <<>>)]

\* the items of a response, bucket after bucket
RECURSIVE Flatten(_)
Flatten(genres) ==
    IF genres = <<>> THEN <<>> ELSE Head(genres).items \o Flatten(Tail(genres))

----------------------------------------------------------------------------
(* The handler.  One request runs from Receive to its response; between two
   awaits it runs without interruption. *)

\* the requests of a run: a first and a second
Requests == {1, 2}

StartTime == 400000000
Hour == 3600000

response500 == [status |-> 500, error |-> "Internal Server Error"]

IdleReq ==
    [pc |-> "idle", query |-> Null, t0 |-> 0, hours |-> NaN, since |-> NaN,
     FEEDS |-> <<>>, status |-> <<>>, fetched |-> <<>>, allItems |-> <<>>,
     deduped |-> <<>>, limitedTargets |-> <<>>, index |-> <<>>, need |-> <<>>,
     now |-> 0, provider |-> "none", out |-> <<>>, response |-> [status |-> 0],
     \* history: the order in which the fetches settled, and tlCache when the
     \* request arrived and when it was answered
     order |-> <<>>, cache0 |-> <<>>, cacheEnd |-> <<>>,
     \* history: how loadFeeds got its list ("cached", "static", "ok", "failed"),
     \* the table it was sent, and the number of calls made so far: fetches of
     \* the table, calls of the provider, parseURL calls per feed
     load |-> "none", csv |-> Null, csvCalls |-> 0, providerCalls |-> 0,
     feedCalls |-> <<>>,
     \* history: the time at which the fetch of the table settled
     tLoad |-> 0]

\* a barrier that opens at the first fetch to settle
AnySettled(status) == \E f \in 1..Len(status) : status[f] # "pending"

\* the barrier of Promise.allSettled
AllSettled(status) == \A f \in 1..Len(status) : status[f] # "pending"

\* the provider's error reaching the handler's own catch
onTranslateRethrow(now, rq, deduped) == response500

\* catch (e) { console.warn("translate failed:", ...) } and on to the response
onTranslateThrow(now, rq, deduped) == response200(now, rq.hours, rq.FEEDS, deduped)

\* a stage that calls the provider whenever there is something to translate
callsProviderNoKey(need, key) == Len(need) > 0

\* need.length && DEEPL_AUTH_KEY
callsProvider(need, key) == Len(need) > 0 /\ key

\* lines 236-241: FEEDS.map starts one task per feed, and each calls parseURL
startFetches(rq, FEEDS) ==
    [rq EXCEPT !.pc = "fetching", !.FEEDS = FEEDS,
               !.status = [f \in 1..Len(FEEDS) |-> "pending"],
               !.fetched = [f \in 1..Len(FEEDS) |-> <<>>],
               !.feedCalls = [f \in 1..Len(FEEDS) |-> 1]]

\* lines 230-236: the request arrives, hours and since are computed and
\* loadFeeds is called; when it returns without a fetch, one fetch per feed is
\* started, and otherwise the handler waits for the table
Arrive(r, query) ==
    /\ req[r].pc = "idle"
    /\ LET hours == hoursOf(query)
           rq    == [req[r] EXCEPT !.query = query, !.t0 = clock, !.hours = hours,
                                   !.since = sinceOf(clock, hours), !.cache0 = tlCache]
       IN  IF loadFeedsAwaits(clock, feedsCache, env.FEEDS_CSV_URL)
           THEN /\ feedsCache' = feedsCache
                /\ req' = [req EXCEPT ![r] = [rq EXCEPT !.pc = "loading", !.csvCalls = @ + 1]]
           ELSE LET lf == loadFeeds(clock, feedsCache)
                IN  /\ feedsCache' = lf.cache
                    /\ req' = [req EXCEPT ![r] =
                            startFetches(
                                [rq EXCEPT !.load = IF feedsCacheFresh(clock, feedsCache)
                                                    THEN "cached" ELSE "static"],
                                lf.feeds)]
    /\ UNCHANGED <<clock, tlCache, env, probe>>

\* a request that arrives when the requests before it have been answered
Receive(r, query) ==
    /\ \A p \in 1..(r - 1) : req[p].pc = "done"
    /\ Arrive(r, query)

\* lines 164-185: the table arrives with an OK status
CsvOk(r, csv) ==
    /\ req[r].pc = "loading"
    /\ LET lf == loadFeedsOk(req[r].t0, csv)
       IN  /\ feedsCache' = lf.cache
           /\ req' = [req EXCEPT ![r] =
                    startFetches([req[r] EXCEPT !.load = "ok", !.csv = csv, !.tLoad = clock],
                                 lf.feeds)]
    /\ UNCHANGED <<clock, tlCache, env, probe>>

\* lines 164-165 and 186-190: fetch rejects, or the status is not OK
CsvFail(r) ==
    /\ req[r].pc = "loading"
    /\ LET lf == loadFeedsCatch(req[r].t0)
       IN  /\ feedsCache' = lf.cache
           /\ req' = [req EXCEPT ![r] =
                    startFetches([req[r] EXCEPT !.load = "failed", !.tLoad = clock], lf.feeds)]
    /\ UNCHANGED <<clock, tlCache, env, probe>>

\* lines 241-260: parser.parseURL answers with a feed; its entries are normalized
\* and pushed on allItems
FetchOk(r, f, items) ==
    /\ req[r].pc # "idle"
    /\ f \in 1..Len(req[r].status)
    /\ req[r].status[f] = "pending"
    /\ req' = [req EXCEPT ![r] =
            [@ EXCEPT !.status[f] = "ok", !.fetched[f] = items, !.order = Append(@, f),
                      !.allItems = @ \o ItemsOfFeed(items, req[r].FEEDS[f], req[r].since)]]
    /\ UNCHANGED <<clock, tlCache, feedsCache, env, probe>>

\* a rejection that reaches the handler's own catch at once, as under Promise.all
\* with no catch in the task
feedCatchAbort(rq, f) ==
    [rq EXCEPT !.status[f] = "failed", !.order = Append(@, f),
               !.pc = "done", !.response = response500]

\* a catch that calls parseURL for the feed once more
feedCatchRetry(rq, f) == [rq EXCEPT !.feedCalls[f] = @ + 1]

\* catch (e) { console.warn(`feed fetch failed [...]`) }: the task ends, and the
\* request goes on
feedCatch(rq, f) == [rq EXCEPT !.status[f] = "failed", !.order = Append(@, f)]

\* lines 261-263: parser.parseURL throws
FetchFail(r, f) ==
    /\ req[r].pc # "idle"
    /\ f \in 1..Len(req[r].status)
    /\ req[r].status[f] = "pending"
    /\ req' = [req EXCEPT ![r] = feedCatch(req[r], f)]
    /\ UNCHANGED <<clock, tlCache, feedsCache, env, probe>>

\* lines 267-303 (and 323-339 when nothing is sent to the provider): after the
\* barrier, sort, de-duplicate, look the candidates up in the cache
Settle(r) ==
    /\ req[r].pc = "fetching"
    /\ AllSettled(req[r].status)
    /\ LET deduped        == dedupe(req[r].allItems)
           limitedTargets == limitedTargetsOf(deduped)
           st == LookupLoop([deduped |-> deduped, index |-> <<>>, need |-> <<>>],
                            limitedTargets, 1, tlCache, clock)
           rq == [req[r] EXCEPT !.deduped = st.deduped, !.limitedTargets = limitedTargets,
                                !.index = st.index, !.need = st.need, !.now = clock]
       IN  IF callsProvider(st.need, env.DEEPL_AUTH_KEY)
           THEN req' = [req EXCEPT ![r] =
                    [rq EXCEPT !.pc = "translating", !.providerCalls = @ + 1]]
           ELSE req' = [req EXCEPT ![r] =
                    [rq EXCEPT !.pc = "done", !.cacheEnd = tlCache,
                               !.response = response200(clock, rq.hours, rq.FEEDS, rq.deduped)]]
    /\ UNCHANGED <<clock, tlCache, feedsCache, env, probe>>

\* what the provider answers to `need` when it translates: one string per text
Translate(text, variant) == IF text = "" THEN "" ELSE variant \o "[" \o text \o "]"

Translated(need, variant) == [n \in 1..Len(need) |-> Translate(need[n], variant)]

\* a well-formed answer in either wording, one that lacks its last string, and
\* one with no translations
ProviderOutputs(need) ==
    {Translated(need, "ja"), Translated(need, "JA"),
     SubSeq(Translated(need, "ja"), 1, Len(need) - 1), <<>>}

\* lines 306-317 and 323-339: the provider answers 200 with `out`
ProviderOk(r, out) ==
    /\ req[r].pc = "translating"
    /\ LET rq == req[r]
           wb == writeBack(rq.deduped, tlCache, rq.limitedTargets, rq.index, out, rq.now)
       IN  /\ tlCache' = wb.cache
           /\ req' = [req EXCEPT ![r] =
                [rq EXCEPT !.pc = "done", !.provider = "ok", !.out = out,
                           !.deduped = wb.deduped, !.cacheEnd = wb.cache,
                           !.response = response200(clock, rq.hours, rq.FEEDS, wb.deduped)]]
    /\ UNCHANGED <<clock, feedsCache, env, probe>>

\* lines 34-46 and 318-321: fetch rejects or the provider answers with an error
\* status; deeplTranslateToJA throws
ProviderFail(r) ==
    /\ req[r].pc = "translating"
    /\ req' = [req EXCEPT ![r] =
            [@ EXCEPT !.pc = "done", !.provider = "failed", !.cacheEnd = tlCache,
                      !.response = onTranslateThrow(clock, req[r], req[r].deduped)]]
    /\ UNCHANGED <<clock, tlCache, feedsCache, env, probe>>

\* time passes, in steps of TickStep, while a request of R is to come or in
\* flight; a feed fetch, which times out after 15 s, settles within the step it
\* started in
MaxTicks == 1
TickStep == TL_TTL_MS

FetchPending(r) == \E f \in 1..Len(req[r].status) : req[r].status[f] = "pending"

Tick(R) ==
    /\ clock < StartTime + MaxTicks * TickStep
    /\ \E r \in R : req[r].pc # "done"
    /\ \A r \in R : ~FetchPending(r)
    /\ clock' = clock + TickStep
    /\ UNCHANGED <<tlCache, feedsCache, env, req, probe>>

\* time passes in steps of `step` up to `until`, between two requests of R or
\* while one waits for the table of feeds
TickBy(R, step, until) ==
    /\ clock + step <= until
    /\ \E r \in R : req[r].pc # "done"
    /\ \A r \in R : req[r].pc \in {"idle", "loading", "done"}
    /\ clock' = clock + step
    /\ UNCHANGED <<tlCache, feedsCache, env, req, probe>>

----------------------------------------------------------------------------
(* Inputs *)

NoProbe == [title |-> "", source |-> "", fallback |-> "", genre |-> ""]

At(ms) == ToString(ms)

Entry(title, link, guid, isoDate, snippet) ==
    [title |-> title, link |-> link, guid |-> guid, isoDate |-> isoDate,
     pubDate |-> Null, published |-> Null, updated |-> Null,
     contentSnippet |-> snippet, summary |-> Null]

E1 == Entry("New Techno EP ", "https://ex.am/1", Null, At(StartTime - Hour \div 2), "Fresh  cuts\n from Berlin ")
E2 == Entry("Deep House night", " https://ex.am/1", "g1", At(StartTime - 2 * Hour), Null)
E3 == Entry("Quiet jazz release", "https://ex.am/3", Null, "yesterday", "Out now")
E4 == Entry("  ", "https://ex.am/4", Null, At(StartTime - Hour), "no title")
\* a title that is not English by looksEnglish; the strings of the state are
\* ASCII, as TLC stores the low byte of each character of a queued state
E5 == Entry("2024.12.31 TECHNO 24H", Null, "https://ex.am/5", At(StartTime - Hour), Null)
E6 == Entry("Rock in Tokyo", Null, " ", At(StartTime - Hour), Null)
E7 == Entry("Ambient works", "https://ex.am/7", Null, At(StartTime - 30 * Hour), "Reissue")

E9 == Entry("Garage rave returns", "https://ex.am/9", Null, At(StartTime - Hour \div 4), Null)
E8 == Entry("Indie label news", "https://ex.am/8", Null, At(StartTime - Hour), "Signed")

\* entries that differ in the date fields they carry
DatedEntry(n, isoDate, pubDate, published, updated) ==
    [title |-> "Single " \o n, link |-> "https://ex.am/d/" \o n, guid |-> Null,
     isoDate |-> isoDate, pubDate |-> pubDate, published |-> published,
     updated |-> updated, contentSnippet |-> Null, summary |-> Null]

\* isoDate alone; pubDate alone; an isoDate that does not parse before a
\* pubDate that does; an empty isoDate before published; no date; a pubDate
\* that does not parse before updated; isoDate and pubDate that differ;
\* updated alone
DatedEntries ==
    {DatedEntry("a", At(StartTime - Hour), Null, Null, Null),
     DatedEntry("b", Null, At(StartTime - Hour \div 2), Null, Null),
     DatedEntry("c", "yesterday", At(StartTime - Hour), Null, Null),
     DatedEntry("d", "", Null, At(StartTime - Hour \div 4), Null),
     DatedEntry("e", Null, Null, Null, Null),
     DatedEntry("f", Null, "soon", Null, At(StartTime - Hour)),
     DatedEntry("g", At(StartTime - Hour \div 2), At(StartTime - Hour), Null, Null),
     DatedEntry("h", Null, Null, Null, At(StartTime - Hour \div 4))}

\* the entries feed f may serve in a run of one request
Entries(f) == IF f = 1 THEN {E1, E2, E3, E4} ELSE IF f = 2 THEN {E2, E5, E6, E7} ELSE {E7}

MaxEntries == 2

Contents(f) == UNION {[1..n -> Entries(f)] : n \in 0..MaxEntries}

DatedContents == UNION {[1..n -> DatedEntries] : n \in 1..MaxEntries}

Queries == {Null, "abc", "0", "2", "1.5", "100"}

\* what feed f may serve in a run of two requests
SeqContents(f) == IF f = 1 THEN {<<E1>>, <<E8, E1>>} ELSE {<<>>, <<E5>>}

\* one more English entry than TRANSLATE_LIMIT, each newer than E1
BulkEntry(i) ==
    Entry("EP " \o ToString(i), "https://ex.am/b/" \o ToString(i), Null,
          At(StartTime - i * 1000), Null)

Bulk == [i \in 1..(TRANSLATE_LIMIT + 1) |-> BulkEntry(i)]

\* what the remote table may hold: a row; a disabled row (CRLF line ends) and
\* a row with a quoted comma, no enabled value and no genre; nothing; the
\* header alone; disabled rows only; a row without url and a blank line; no
\* enabled and no defaultGenre column
CsvHeader == "enabled,source,url,defaultGenre\n"

CsvTexts ==
    {CsvHeader \o "TRUE,Alpha,https://a.ex/rss,House\n",
     "enabled,source,url,defaultGenre\r\nfalse,Alpha,https://a.ex/rss,House\r\n"
        \o ",\"Beta, Inc\",https://b.ex/rss,\r\n",
     "",
     CsvHeader,
     CsvHeader \o "FALSE,Alpha,https://a.ex/rss,House\n False ,Gamma,https://c.ex/rss,Rock",
     CsvHeader \o "TRUE,Alpha,,House\n,,,\n",
     " source ,url\nAlpha, https://a.ex/rss \nBeta,https://b.ex/rss\n"}

\* the steps of the clock in a run about the feed list: half the life of
\* feedsCache each
MaxFeedTicks == 3
FeedStep == FEEDS_CACHE_MS \div 2

\* the inputs of a pickGenre call made on its own
Words == {"Techno", "house", "crossover", "Trap", "MV", "J-POP", "テクノ", "jazz",
          "DnB", "Punk", "UK Garage", "drum and bass"}

MaxWords == 2

RECURSIVE JoinWords(_)
JoinWords(ws) == IF ws = <<>> THEN ""
                 ELSE IF Len(ws) = 1 THEN ws[1]
                 ELSE ws[1] \o " " \o JoinWords(Tail(ws))

Titles == {JoinWords(ws) : ws \in UNION {[1..n -> Words] : n \in 0..MaxWords}}
           \cup {"Techno house crossover"}
Sources == {"Mixmag", "The Quietus", "Rock Sound"}
Fallbacks == {"", "Pop", "Japan"}

----------------------------------------------------------------------------
Init ==
    /\ clock = StartTime
    /\ tlCache = <<>>
    /\ feedsCache = [at |-> 0, feeds |-> FEEDS_FALLBACK]
    /\ env \in {[DEEPL_AUTH_KEY |-> key, FEEDS_CSV_URL |-> FALSE] : key \in BOOLEAN}
    /\ req = [r \in Requests |-> IdleReq]
    /\ probe = NoProbe

\* one request, any query, any feed contents
Next ==
    \/ \E query \in Queries : Receive(1, query)
    \/ \E f \in 1..NumFeeds : \E items \in Contents(f) : FetchOk(1, f, items)
    \/ \E f \in 1..NumFeeds : FetchFail(1, f)
    \/ Settle(1)
    \/ ProviderOk(1, Translated(req[1].need, "ja"))
    \/ ProviderFail(1)
    \/ Tick({1})

Spec == Init /\ [][Next]_vars

\* two requests, one after the other, the provider answering in any way
NextSeq ==
    \/ \E r \in Requests : Receive(r, Null)
    \/ \E r \in Requests, f \in 1..NumFeeds : \E items \in SeqContents(f) : FetchOk(r, f, items)
    \/ \E r \in Requests, f \in 1..NumFeeds : FetchFail(r, f)
    \/ \E r \in Requests : Settle(r)
    \/ \E r \in Requests : \E out \in ProviderOutputs(req[r].need) : ProviderOk(r, out)
    \/ \E r \in Requests : ProviderFail(r)
    \/ Tick(Requests)

SpecSeq == Init /\ [][NextSeq]_vars

\* two requests, the second with more candidates than TRANSLATE_LIMIT
NextLimit ==
    \/ \E r \in Requests : Receive(r, Null)
    \/ \E r \in Requests : FetchOk(r, 1, <<E1>>)
    \/ FetchOk(1, 2, <<>>)
    \/ FetchOk(2, 2, Bulk)
    \/ \E f \in 1..NumFeeds : FetchFail(2, f)
    \/ \E r \in Requests : Settle(r)
    \/ \E r \in Requests : ProviderOk(r, Translated(req[r].need, "ja"))
    \/ \E r \in Requests : ProviderFail(r)
    \/ Tick(Requests)

SpecLimit == Init /\ [][NextLimit]_vars

\* the entries of two requests whose candidates are cached in part
PairContents(f) == IF f = 1 THEN {<<E1>>, <<E8, E1>>} ELSE {<<>>, <<E9, E5>>}

\* two requests, one after the other at the same time, every feed answering
NextPair ==
    \/ \E r \in Requests : Receive(r, Null)
    \/ \E r \in Requests, f \in 1..NumFeeds : \E items \in PairContents(f) : FetchOk(r, f, items)
    \/ \E r \in Requests : Settle(r)
    \/ \E r \in Requests : \E out \in ProviderOutputs(req[r].need) : ProviderOk(r, out)
    \/ \E r \in Requests : ProviderFail(r)

SpecPair == Init /\ [][NextPair]_vars

\* two requests that may overlap: either may arrive while the other waits for
\* its feeds or for the provider, and the handler runs from one await to the
\* next without interruption
NextRace ==
    \/ \E r \in Requests : Arrive(r, Null)
    \/ \E r \in Requests, f \in 1..NumFeeds : \E items \in PairContents(f) : FetchOk(r, f, items)
    \/ \E r \in Requests : Settle(r)
    \/ \E r \in Requests : \E out \in ProviderOutputs(req[r].need) : ProviderOk(r, out)
    \/ \E r \in Requests : ProviderFail(r)

SpecRace == Init /\ [][NextRace]_vars

\* the entries of a request whose feeds settle in either order: E8 and E5 have
\* the same date, E2 is served by both feeds, E1 and E2 have the same url
OrderContents(f) == IF f = 1 THEN {<<E8, E1>>, <<E2>>} ELSE {<<E2, E5>>, <<E2, E9>>}

\* one request whose feeds answer or fail in any order
NextOrder ==
    \/ \E query \in {Null, "2"} : Receive(1, query)
    \/ \E f \in 1..NumFeeds : \E items \in OrderContents(f) : FetchOk(1, f, items)
    \/ \E f \in 1..NumFeeds : FetchFail(1, f)
    \/ Settle(1)
    \/ ProviderOk(1, Translated(req[1].need, "ja"))
    \/ ProviderFail(1)

SpecOrder == Init /\ [][NextOrder]_vars

\* one request, the first feed serving entries with any date fields
NextDates ==
    \/ \E query \in {Null, "2"} : Receive(1, query)
    \/ \E items \in DatedContents : FetchOk(1, 1, items)
    \/ \E f \in 2..NumFeeds : FetchOk(1, f, <<E5>>)
    \/ \E f \in 1..NumFeeds : FetchFail(1, f)
    \/ Settle(1)
    \/ ProviderOk(1, Translated(req[1].need, "ja"))
    \/ ProviderFail(1)

SpecDates == Init /\ [][NextDates]_vars

\* two requests with a remote table configured
InitFeeds ==
    /\ clock = StartTime
    /\ tlCache = <<>>
    /\ feedsCache = [at |-> 0, feeds |-> FEEDS_FALLBACK]
    /\ env = [DEEPL_AUTH_KEY |-> TRUE, FEEDS_CSV_URL |-> TRUE]
    /\ req = [r \in Requests |-> IdleReq]
    /\ probe = NoProbe

NextFeeds ==
    \/ \E r \in Requests : Receive(r, Null)
    \/ \E r \in Requests : \E csv \in CsvTexts : CsvOk(r, csv)
    \/ \E r \in Requests : CsvFail(r)
    \/ \E r \in Requests : FetchOk(r, 1, <<E1>>)
    \/ \E r \in Requests : \E f \in 1..Len(req[r].status) : FetchFail(r, f)
    \/ \E r \in Requests : Settle(r)
    \/ \E r \in Requests : ProviderOk(r, Translated(req[r].need, "ja"))
    \/ \E r \in Requests : ProviderFail(r)
    \/ TickBy(Requests, FeedStep, StartTime + MaxFeedTicks * FeedStep)

SpecFeeds == InitFeeds /\ [][NextFeeds]_vars

\* What the code's scheduling ensures: a parseURL call that has not answered is
\* rejected by the timer of the parser, which is built with timeout: 15000, and
\* the handler goes on once every task has settled.  fetch(FEEDS_CSV_URL) and
\* the fetch of deeplTranslateToJA are given no timeout and no signal: nothing
\* in the code makes them settle.
AtOpenBarrier(r) == req[r].pc = "fetching" /\ AllSettled(req[r].status)

Fairness ==
    \A r \in Requests :
        /\ \A f \in 1..NumFeeds : WF_vars(FetchFail(r, f))
        /\ []<>(~AtOpenBarrier(r))

\* two requests with a remote table configured, no time passing between them
NextLive ==
    \/ \E r \in Requests : Receive(r, Null)
    \/ \E r \in Requests : CsvOk(r, CsvHeader \o "TRUE,Alpha,https://a.ex/rss,House\n")
    \/ \E r \in Requests : CsvFail(r)
    \/ \E r \in Requests : FetchOk(r, 1, <<E1>>)
    \/ \E r \in Requests : \E f \in 1..Len(req[r].status) : FetchFail(r, f)
    \/ \E r \in Requests : Settle(r)
    \/ \E r \in Requests : ProviderOk(r, Translated(req[r].need, "ja"))
    \/ \E r \in Requests : ProviderFail(r)

SpecLive == InitFeeds /\ [][NextLive]_vars /\ Fairness

\* pickGenre on its own
Classify(title, source, fallback) ==
    /\ probe = NoProbe
    /\ probe' = [title |-> title, source |-> source, fallback |-> fallback,
                 genre |-> pickGenre(title, source, fallback)]
    /\ UNCHANGED <<clock, tlCache, feedsCache, env, req>>

NextGenre == \E title \in Titles, source \in Sources, fallback \in Fallbacks :
                Classify(title, source, fallback)

SpecGenre == Init /\ [][NextGenre]_vars

----------------------------------------------------------------------------
(* What the properties below speak of *)

Answered(r) == req[r].pc = "done"

Answered200(r) == Answered(r) /\ req[r].response.status = 200

\* the items of the response to r, bucket after bucket
ItemsOf(r) == Flatten(req[r].response.genres)

HasJa(it) == "titleJa" \in DOMAIN it \/ "summaryJa" \in DOMAIN it

\* the fields of an item that come from its entry
Core(it) == [k \in {"id", "title", "url", "source", "publishedAt", "summary"} |-> it[k]]

\* the item that entry e of the feed with descriptor d stands for
EntryItem(e, d) ==
    [id |-> d.source \o "::" \o Trim(OrElse(e.link, OrElse(e.guid, ""))),
     title |-> Trim(OrElse(e.title, "")),
     url |-> Trim(OrElse(e.link, OrElse(e.guid, ""))),
     source |-> d.source,
     publishedAt |-> toIso(publishedRawOf(e)),
     summary |-> summaryOf(e)]

\* e has a parseable date inside the window of r, and a title and a url
PassesNormalization(e, r) ==
    /\ ~publishedMsOf(e).nan
    /\ ~(~req[r].since.nan /\ publishedMsOf(e).v < req[r].since.v)
    /\ Trim(OrElse(e.title, "")) # ""
    /\ Trim(OrElse(e.link, OrElse(e.guid, ""))) # ""

\* the entries feed f served to r
Served(r, f) == IF req[r].status[f] = "ok" THEN Range(req[r].fetched[f]) ELSE {}

FeedsOf(r) == 1..Len(req[r].status)

----------------------------------------------------------------------------
(* C1.  In every 200 response no two items, taken across all genre buckets,
   have the same url, whatever the feeds served and in whatever order their
   fetches completed. *)
C1_UniqueUrls ==
    \A r \in Requests : Answered200(r) =>
        \A i, j \in 1..Len(ItemsOf(r)) : i # j => ItemsOf(r)[i].url # ItemsOf(r)[j].url

\* a response to a request that collected one url twice, from two feeds
C1_Witness ==
    /\ Answered200(1)
    /\ \E i, j \in 1..Len(req[1].allItems) :
            /\ req[1].allItems[i].url = req[1].allItems[j].url
            /\ req[1].allItems[i].source # req[1].allItems[j].source
    /\ Len(ItemsOf(1)) >= 2

(* C2.  For a request whose hours parameter is an integer in 1..72, every item
   of the response has a publishedAt that is not null and not earlier than the
   request time less that many hours, and no entry published before that bound
   is in the response. *)
HoursParamInRange(r) ==
    /\ req[r].query # Null
    /\ LET n == StringToNumber(req[r].query)
       IN  ~n.nan /\ n.v % 1000 = 0 /\ 1000 <= n.v /\ n.v <= 72000

WindowStart(r) == req[r].t0 - (StringToNumber(req[r].query).v \div 1000) * Hour

C2_InsideWindow ==
    \A r \in Requests : (Answered(r) /\ HoursParamInRange(r)) =>
        /\ req[r].response.status = 200
        /\ \A it \in Range(ItemsOf(r)) :
                /\ it.publishedAt # Null
                /\ ~DateParse(it.publishedAt).nan
                /\ DateParse(it.publishedAt).v >= WindowStart(r)
        /\ \A f \in FeedsOf(r) : \A e \in Served(r, f) :
                (~publishedMsOf(e).nan /\ publishedMsOf(e).v < WindowStart(r)) =>
                    \A it \in Range(ItemsOf(r)) : Core(it) # EntryItem(e, req[r].FEEDS[f])

\* hours=2: an entry published exactly two hours before the request is kept,
\* one published thirty hours before it was served and is not in the response
C2_Witness ==
    /\ Answered(1) /\ HoursParamInRange(1)
    /\ \E f \in FeedsOf(1) : E7 \in Served(1, f)
    /\ \E it \in Range(ItemsOf(1)) : DateParse(it.publishedAt).v = WindowStart(1)

(* C3.  The effective hours of every request is an integer in 1..72: a value
   below 1 becomes 1, one above 72 becomes 72, an absent or non-numeric value
   becomes 24; and the request is answered 200 with that value. *)
C3_HoursClamped ==
    \A r \in Requests : req[r].pc # "idle" =>
        LET h == req[r].hours
            n == IF req[r].query = Null THEN NaN ELSE StringToNumber(req[r].query)
        IN  /\ ~h.nan /\ h.v % 1000 = 0 /\ 1000 <= h.v /\ h.v <= 72000
            /\ (n.nan => h.v = 24000)
            /\ (~n.nan /\ n.v < 1000 => h.v = 1000)
            /\ (~n.nan /\ n.v > 72000 => h.v = 72000)
            /\ (Answered(r) => req[r].response.status = 200 /\ req[r].response.hours = h)

(* C4.  Whatever feeds fail, the response is a 200; a failing feed contributes
   no item; and every entry of another feed that passes normalization is in
   the response unless a copy with the same url from ANOTHER feed is kept in
   its place. *)
C4_KeptUnlessOtherFeed ==
    \A r \in Requests : Answered(r) =>
        /\ req[r].response.status = 200
        /\ \A f \in FeedsOf(r) : req[r].status[f] = "failed" =>
                \A it \in Range(ItemsOf(r)) : it.source # req[r].FEEDS[f].source
        /\ \A f \in FeedsOf(r) : \A e \in Served(r, f) : PassesNormalization(e, r) =>
                \/ \E it \in Range(ItemsOf(r)) : Core(it) = EntryItem(e, req[r].FEEDS[f])
                \/ \E it \in Range(ItemsOf(r)) :
                        /\ it.url = EntryItem(e, req[r].FEEDS[f]).url
                        /\ it.source # req[r].FEEDS[f].source

(* C4, amended.  Whatever feeds fail, the response is a 200; a failing feed
   contributes no item; and every entry of another feed that passes
   normalization is in the response unless another entry with the same url,
   of the same feed or of another, is kept in its place. *)
C4_KeptUnlessSameUrl ==
    \A r \in Requests : Answered(r) =>
        /\ req[r].response.status = 200
        /\ \A f \in FeedsOf(r) : req[r].status[f] = "failed" =>
                \A it \in Range(ItemsOf(r)) : it.source # req[r].FEEDS[f].source
        /\ \A f \in FeedsOf(r) : \A e \in Served(r, f) : PassesNormalization(e, r) =>
                \/ \E it \in Range(ItemsOf(r)) : Core(it) = EntryItem(e, req[r].FEEDS[f])
                \/ \E it \in Range(ItemsOf(r)) : it.url = EntryItem(e, req[r].FEEDS[f]).url

\* one feed failed, the other served two entries with one url: the response
\* holds the newer of the two
C4_Witness ==
    /\ Answered200(1)
    /\ req[1].status[2] = "failed"
    /\ req[1].fetched[1] = <<E2, E1>>
    /\ PassesNormalization(E2, 1)
    /\ \E it \in Range(ItemsOf(1)) : Core(it) = EntryItem(E1, req[1].FEEDS[1])
    /\ Len(ItemsOf(1)) = 1

(* C5.  When the provider call fails, the response is still a 200 holding every
   de-duplicated item; an item carries titleJa/summaryJa only if the cache held
   a live entry for it when the request looked it up, and then the entry's
   values; and the request leaves the cache as it found it. *)
C5_ProviderFailure ==
    \A r \in Requests : (Answered(r) /\ req[r].provider = "failed") =>
        /\ req[r].response.status = 200
        /\ Len(ItemsOf(r)) = Len(req[r].deduped)
        /\ {it.url : it \in Range(ItemsOf(r))}
                = {it.url : it \in Range(SortItems(req[r].allItems))}
        /\ \A it \in Range(ItemsOf(r)) : HasJa(it) =>
                LET key == it.title \o "|||" \o OrElse(it.summary, "")
                IN  /\ key \in DOMAIN req[r].cache0
                    /\ req[r].now - req[r].cache0[key].t < TL_TTL_MS
                    /\ it.titleJa = req[r].cache0[key].titleJa
                    /\ it.summaryJa = req[r].cache0[key].summaryJa
        /\ req[r].cacheEnd = req[r].cache0

\* a second request whose provider call failed: one item is served from the
\* cache, another English one goes without a translation
C5_Witness ==
    /\ Answered200(2) /\ req[2].provider = "failed"
    /\ \E it \in Range(ItemsOf(2)) : HasJa(it) /\ it.titleJa # Null
    /\ \E it \in Range(ItemsOf(2)) : ~HasJa(it) /\ looksEnglish(it.title)
    /\ req[2].cacheEnd # <<>>

(* C6.  The first request got the translation of a (title, summary) pair from
   the provider and cached it at t; the second looks the pair up less than 6
   hours after t, among its first 40 candidates.  Then the second request does
   not submit the pair, and its item carries the titleJa/summaryJa of the first
   response. *)
KeysWritten(r) ==
    IF req[r].provider = "ok" /\ Len(req[r].out) > 0
    THEN {req[r].index[k][2] : k \in 1..Len(req[r].index)} ELSE {}

PairKey(it) == it.title \o "|||" \o OrElse(it.summary, "")

\* the items of r among its first TRANSLATE_LIMIT candidates
FirstCandidates(r) ==
    LET cand == SelectSeq(req[r].deduped, LAMBDA it : looksEnglish(it.title))
    IN  Range(SubSeq(cand, 1, Min(Len(cand), 40)))

LookedUpInTime(key) ==
    /\ key \in KeysWritten(1)
    /\ req[2].pc \in {"translating", "done"}
    /\ req[2].now - req[1].now < 6 * Hour
    /\ \E it \in FirstCandidates(2) : PairKey(it) = key

C6_CachedPairReused ==
    \A key \in KeysWritten(1) : LookedUpInTime(key) =>
        /\ \A k \in 1..Len(req[2].index) : req[2].index[k][2] # key
        /\ \A k \in 1..Len(req[2].need) : k % 2 = 1 =>
                req[2].need[k] \o "|||" \o req[2].need[k + 1] # key
        /\ Answered(2) =>
                \A it2 \in Range(ItemsOf(2)) : PairKey(it2) = key =>
                    /\ HasJa(it2)
                    /\ \A it1 \in Range(ItemsOf(1)) : PairKey(it1) = key =>
                            it2.titleJa = it1.titleJa /\ it2.summaryJa = it1.summaryJa

\* the second request asked the provider for another pair, in the other
\* wording, and served the pair of the first request from the cache
C6_Witness ==
    /\ Answered200(2) /\ req[2].provider = "ok"
    /\ req[2].out = Translated(req[2].need, "JA")
    /\ req[1].out = Translated(req[1].need, "ja")
    /\ \E key \in KeysWritten(1) : LookedUpInTime(key)
            /\ \E it \in Range(ItemsOf(2)) : PairKey(it) = key /\ it.titleJa # Null

(* C7.  A request submits at most 40 items to the provider, and only the first
   40 translation candidates of the de-duplicated newest-first order can carry
   titleJa/summaryJa: a later candidate goes without, even when the cache holds
   a live entry for it. *)
CandidateRank(r, p) ==
    Cardinality({q \in 1..p : looksEnglish(req[r].deduped[q].title)})

C7_TranslateLimit ==
    \A r \in Requests :
        /\ Len(req[r].index) <= 40
        /\ Len(req[r].need) <= 2 * 40
        /\ Answered200(r) =>
            /\ Len(ItemsOf(r)) = Len(req[r].deduped)
            /\ \A p \in 1..Len(req[r].deduped) :
                    (~looksEnglish(req[r].deduped[p].title) \/ CandidateRank(r, p) > 40) =>
                        \A it \in Range(ItemsOf(r)) :
                            it.url = req[r].deduped[p].url => ~HasJa(it)

\* forty items submitted, and a forty-second candidate whose pair is live in the
\* cache is answered without a translation
C7_Witness ==
    /\ Answered200(2)
    /\ Len(req[2].index) = 40
    /\ \E p \in 1..Len(req[2].deduped) :
            /\ CandidateRank(2, p) = 42
            /\ PairKey(req[2].deduped[p]) \in DOMAIN req[2].cache0
            /\ req[2].now - req[2].cache0[PairKey(req[2].deduped[p])].t < TL_TTL_MS
            /\ \E it \in Range(ItemsOf(2)) : it.url = req[2].deduped[p].url /\ ~HasJa(it)

(* C8.  pickGenre returns the name of the first rule, in the order Techno,
   House, Drum & Bass, Dubstep, UK Garage, Ambient, Experimental, Hip-Hop,
   Metal, Rock, Pop, Japan, one of whose keywords is a substring of the
   lower-cased text title + " " + source; with no such rule it returns the
   fallback if that is not empty and "Other" otherwise. *)
RuleOrder == <<"Techno", "House", "Drum & Bass", "Dubstep", "UK Garage", "Ambient",
               "Experimental", "Hip-Hop", "Metal", "Rock", "Pop", "Japan">>

RuleMatches(name, text) ==
    \E g \in Range(GENRES) :
        /\ g.name = name
        /\ \E kw \in Range(g.keywords) : Includes(text, ToLowerCase(kw))

C8_FirstRuleWins ==
    probe # NoProbe =>
        LET text == ToLowerCase(probe.title \o " " \o probe.source)
            hits == {i \in 1..Len(RuleOrder) : RuleMatches(RuleOrder[i], text)}
        IN  /\ {g.name : g \in Range(GENRES)} = Range(RuleOrder)
            /\ probe.genre =
                IF hits # {} THEN RuleOrder[CHOOSE i \in hits : \A j \in hits : i <= j]
                ELSE IF probe.fallback # "" THEN probe.fallback
                ELSE "Other"

\* a title that matches Techno and House is Techno
C8_Witness ==
    /\ probe.title = "Techno house crossover"
    /\ RuleMatches("House", ToLowerCase(probe.title \o " " \o probe.source))
    /\ probe.genre = "Techno"

(* C9.  Every item of a response has a title and a url that are trimmed and
   not empty and a publishedAt that is not null, and it stands for a served
   entry whose date parses and whose title and url are not blank: an entry
   with an unparseable date, or a missing or blank title or url, is in no
   response. *)
C9_WellFormedItems ==
    \A r \in Requests : Answered200(r) =>
        \A it \in Range(ItemsOf(r)) :
            /\ it.title # "" /\ Trim(it.title) = it.title
            /\ it.url # "" /\ Trim(it.url) = it.url
            /\ it.publishedAt # Null
            /\ \E f \in FeedsOf(r) : \E e \in Served(r, f) :
                    /\ Core(it) = EntryItem(e, req[r].FEEDS[f])
                    /\ ~publishedMsOf(e).nan
                    /\ e.title # Null /\ Trim(e.title) # ""
                    /\ (e.link # Null /\ Trim(e.link) # "") \/ (e.guid # Null /\ Trim(e.guid) # "")

\* entries with an unparseable date, a blank title and a blank url were served,
\* and the response holds none of them
C9_Witness ==
    /\ Answered200(1)
    /\ req[1].fetched[1] = <<E3, E4>>
    /\ req[1].fetched[2] = <<E6, E5>>
    /\ Len(ItemsOf(1)) = 1

(* C10.  The handler goes past the barrier only when every fetch has settled;
   a fetch that fails does not stop another from completing, and the items of
   every fetch that succeeded are collected, whatever failed before it. *)
C10_AllSettledBarrier ==
    \A r \in Requests :
        /\ req[r].pc \in {"translating", "done"} =>
                \A f \in FeedsOf(r) : req[r].status[f] \in {"ok", "failed"}
        /\ \A f \in FeedsOf(r) : \A e \in Served(r, f) : PassesNormalization(e, r) =>
                \E it \in Range(req[r].allItems) : Core(it) = EntryItem(e, req[r].FEEDS[f])
        /\ Answered(r) =>
                /\ req[r].response.status = 200
                /\ \A f \in FeedsOf(r) : \A e \in Served(r, f) : PassesNormalization(e, r) =>
                        \E it \in Range(ItemsOf(r)) : it.url = EntryItem(e, req[r].FEEDS[f]).url

\* the first fetch to settle failed, the second then succeeded and its entry is
\* in the response
C10_Witness ==
    /\ Answered200(1)
    /\ req[1].order = <<1, 2>>
    /\ req[1].status = <<"failed", "ok">>
    /\ \E it \in Range(ItemsOf(1)) : it.source = req[1].FEEDS[2].source

(* C11.  When entries with one url and different publish instants are
   collected, from one feed or from several, the response holds exactly one of
   them, and it is the one with the latest publishedAt. *)
CollectedWithUrl(r, u) == {it \in Range(req[r].allItems) : it.url = u}

C11_NewestCopyKept ==
    \A r \in Requests : Answered200(r) =>
        \A c \in Range(req[r].allItems) :
            LET copies == CollectedWithUrl(r, c.url)
                kept   == {i \in 1..Len(ItemsOf(r)) : ItemsOf(r)[i].url = c.url}
            IN  (\A a, b \in copies : a # b => a.publishedAt # b.publishedAt) =>
                    /\ Cardinality(kept) = 1
                    /\ \A i \in kept :
                        /\ \E a \in copies : Core(ItemsOf(r)[i]) = Core(a)
                        /\ \A a \in copies :
                            DateParse(ItemsOf(r)[i].publishedAt).v >= DateParse(a.publishedAt).v

\* the older copy was collected first, from another feed than the newer one,
\* and the response holds the newer
C11_Witness ==
    /\ Answered200(1)
    /\ Len(req[1].allItems) = 2
    /\ req[1].allItems[1].url = req[1].allItems[2].url
    /\ req[1].allItems[1].source # req[1].allItems[2].source
    /\ DateParse(req[1].allItems[1].publishedAt).v < DateParse(req[1].allItems[2].publishedAt).v
    /\ Len(ItemsOf(1)) = 1
    /\ Core(ItemsOf(1)[1]) = Core(req[1].allItems[2])

(* C12.  Whatever the remote table answers (a table, an HTTP error, a network
   error, an empty table, rows that are all disabled or lack source or url),
   and after any earlier calls, loadFeeds does not throw: it returns a list
   that is not empty, the rows of a successful remote load or the static list,
   and the handler answers 200. *)
PastLoad(r) == req[r].pc \in {"fetching", "translating", "done"}

C12_FeedListNeverEmpty ==
    /\ Len(feedsCache.feeds) > 0
    /\ \A r \in Requests : PastLoad(r) =>
        /\ Len(req[r].FEEDS) > 0
        /\ \A d \in Range(req[r].FEEDS) : d.source # "" /\ d.url # ""
        /\ \/ req[r].FEEDS = FEEDS_FALLBACK
           \/ \E p \in Requests :
                /\ p <= r /\ req[p].load = "ok"
                /\ req[r].FEEDS = feedsOfRows(parseCsv(req[p].csv))
        /\ req[r].load = "failed" => req[r].FEEDS = FEEDS_FALLBACK
        /\ req[r].load \in {"cached", "static", "ok", "failed"}
        /\ Answered(r) => req[r].response.status = 200

\* the first request was sent a table with no usable row and the second, after
\* the cache had expired, got an error: both were answered from the static list
C12_Witness ==
    /\ Answered200(1) /\ Answered200(2)
    /\ req[1].load = "ok" /\ req[1].csv # ""
    /\ feedsOfRows(parseCsv(req[1].csv)) = <<>>
    /\ req[1].FEEDS = FEEDS_FALLBACK
    /\ req[2].load = "failed"
    /\ req[2].FEEDS = FEEDS_FALLBACK

(* C13.  Every request that arrives is eventually answered, with a 200 or a
   500: no step of the handler waits for ever, even when a feed, the provider
   or the remote table of feeds never answers. *)
C13_EveryRequestAnswered ==
    \A r \in Requests :
        (req[r].pc # "idle") ~> (req[r].pc = "done" /\ req[r].response.status \in {200, 500})

(* C14.  The genres mapping of a response partitions the de-duplicated
   newest-first sequence: every item is in exactly one bucket, the one named
   by pickGenre of the item; a bucket lists its items in the order of that
   sequence; no bucket is empty; and no emitted item has the field
   _fallbackGenre. *)
WithoutFallback(it) == [k \in DOMAIN it \ {"_fallbackGenre"} |-> it[k]]

\* the genre of every item of the de-duplicated sequence of r
GenresOfDeduped(r) ==
    [i \in 1..Len(req[r].deduped) |->
        pickGenre(req[r].deduped[i].title, req[r].deduped[i].source,
                  req[r].deduped[i]._fallbackGenre)] \o <<>>

C14_GenresPartition ==
    \A r \in Requests : Answered200(r) =>
        LET genres  == req[r].response.genres
            deduped == req[r].deduped
            genre   == GenresOfDeduped(r)
        IN  /\ \A n \in 1..Len(genres) : Len(genres[n].items) > 0
            /\ \A m, n \in 1..Len(genres) : m # n => genres[m].name # genres[n].name
            /\ \A i \in 1..Len(deduped) : \E n \in 1..Len(genres) : genres[n].name = genre[i]
            /\ \A n \in 1..Len(genres) :
                LET at == SelectSeq([i \in 1..Len(deduped) |-> i],
                                    LAMBDA i : genre[i] = genres[n].name)
                IN  /\ Len(genres[n].items) = Len(at)
                    /\ \A k \in 1..Len(at) :
                            genres[n].items[k] = WithoutFallback(deduped[at[k]])
            /\ \A it \in Range(ItemsOf(r)) : "_fallbackGenre" \notin DOMAIN it
            /\ req[r].response.totalItems = Len(deduped)

\* two buckets, the first with two items between which, in the newest-first
\* sequence, lies the item of the second
C14_Witness ==
    /\ Answered200(1)
    /\ Len(req[1].response.genres) = 2
    /\ Len(req[1].response.genres[1].items) = 2
    /\ Len(req[1].deduped) = 3
    /\ req[1].response.genres[2].items[1].url = req[1].deduped[2].url

(* C15.  Normalization takes as publish instant the first of isoDate, pubDate,
   published, updated, in that order, that PARSES to a valid instant, and
   discards an entry for its date only when none of them parses. *)
DateCandidates(e) == <<e.isoDate, e.pubDate, e.published, e.updated>>

\* the candidates of e that parse
Parsing(e) == {k \in 1..4 : DateCandidates(e)[k] # Null /\ ~DateParse(DateCandidates(e)[k]).nan}

First(K) == CHOOSE k \in K : \A j \in K : k <= j

\* the items of the response to r that stand for entry e
ItemsFor(r, e) == {it \in Range(ItemsOf(r)) : it.url = Trim(e.link)}

C15_FirstParsingDate ==
    Answered200(1) =>
        \A e \in Served(1, 1) :
            /\ Parsing(e) = {} => ItemsFor(1, e) = {}
            /\ Parsing(e) # {} =>
                /\ ItemsFor(1, e) # {}
                /\ \A it \in ItemsFor(1, e) :
                    it.publishedAt = toISOString(DateParse(DateCandidates(e)[First(Parsing(e))]).v)

(* C16.  A request takes a translation from the cache only when the entry's
   timestamp t satisfies now - t < 6 hours at its lookup.  When now - t >= 6
   hours the pair is submitted to the provider as if the cache had no entry,
   and when the provider answers with one string per submitted string the
   entry is overwritten with the lookup time of this request and the new
   translations. *)
LookedUp(r) == req[r].pc \in {"translating", "done"}

\* the keys r submitted, and the position (from 0) of key in that list
Submitted(r) == {req[r].index[k][2] : k \in 1..Len(req[r].index)}
MissRank(r, key) == (CHOOSE k \in 1..Len(req[r].index) : req[r].index[k][2] = key) - 1

WellFormedAnswer(r) ==
    Answered(r) /\ req[r].provider = "ok" /\ Len(req[r].out) = Len(req[r].need)

C16_ExpiryAndOverwrite ==
    \A r \in Requests : LookedUp(r) =>
        \A it \in FirstCandidates(r) :
            LET key == PairKey(it)
                old == req[r].cache0
            IN  /\ key \notin Submitted(r) =>
                    /\ key \in DOMAIN old
                    /\ req[r].now - old[key].t < 6 * Hour
                /\ (key \in DOMAIN old /\ req[r].now - old[key].t >= 6 * Hour) =>
                    /\ key \in Submitted(r)
                    /\ req[r].need[2 * MissRank(r, key) + 1] = it.title
                    /\ WellFormedAnswer(r) =>
                        /\ req[r].cacheEnd[key].t = req[r].now
                        /\ req[r].cacheEnd[key].titleJa
                                = OrElse(req[r].out[2 * MissRank(r, key) + 1], Null)
                        /\ req[r].cacheEnd[key].summaryJa
                                = OrElse(req[r].out[2 * MissRank(r, key) + 2], Null)
                        /\ tlCache[key] = req[r].cacheEnd[key]

\* the second request looks a pair up exactly 6 hours after the first cached
\* it, submits it again and replaces the entry by the provider's new wording
C16_Witness ==
    /\ WellFormedAnswer(2)
    /\ req[1].out = Translated(req[1].need, "ja")
    /\ req[2].out = Translated(req[2].need, "JA")
    /\ \E key \in DOMAIN req[2].cache0 :
        /\ req[2].now - req[2].cache0[key].t = TL_TTL_MS
        /\ key \in Submitted(2)
        /\ req[2].cacheEnd[key].t = req[2].now
        /\ req[2].cacheEnd[key].titleJa # req[2].cache0[key].titleJa

(* C17.  When the provider returns one string per submitted string, in the
   order submitted, the k-th candidate that missed the cache (misses counted
   from 0 in candidate order, hits in between not counted) gets string 2k as
   titleJa and string 2k+1 as summaryJa, and its cache key stores the same
   two; so every such item and key holds the translation of its own title and
   summary. *)
CandidatesOf(r) ==
    LET cand == SelectSeq(req[r].deduped, LAMBDA it : looksEnglish(it.title))
    IN  SubSeq(cand, 1, Min(Len(cand), 40))

IsMiss(r, it) ==
    ~(PairKey(it) \in DOMAIN req[r].cache0
        /\ req[r].now - req[r].cache0[PairKey(it)].t < 6 * Hour)

MissesBefore(r, n) == Cardinality({m \in 1..(n - 1) : IsMiss(r, CandidatesOf(r)[m])})

\* the translation of the text submitted for a summary, as the item gets it
SummaryJaOf(it, variant) ==
    IF OrElse(it.summary, "") = "" THEN Null
    ELSE Translate(Slice0(it.summary, 400), variant)

C17_PositionalPairing ==
    \A r \in Requests : (WellFormedAnswer(r) /\ Len(req[r].out) > 0) =>
        \A n \in 1..Len(CandidatesOf(r)) :
            LET c   == CandidatesOf(r)[n]
                k   == MissesBefore(r, n)
                out == req[r].out
            IN  IsMiss(r, c) =>
                  \A it \in {x \in Range(ItemsOf(r)) : x.url = c.url} :
                    /\ it.titleJa = OrElse(out[2 * k + 1], Null)
                    /\ it.summaryJa = OrElse(out[2 * k + 2], Null)
                    /\ req[r].cacheEnd[PairKey(it)]
                            = [t |-> req[r].now, titleJa |-> it.titleJa,
                               summaryJa |-> it.summaryJa]
                    /\ \E variant \in {"ja", "JA"} :
                        /\ it.titleJa = Translate(it.title, variant)
                        /\ it.summaryJa = SummaryJaOf(it, variant)

\* the second request: a miss, then a candidate served from the cache, then
\* another miss, which gets the third and fourth string of the answer
C17_Witness ==
    /\ WellFormedAnswer(2) /\ Len(req[2].out) = 4
    /\ Len(CandidatesOf(2)) = 3
    /\ IsMiss(2, CandidatesOf(2)[1])
    /\ ~IsMiss(2, CandidatesOf(2)[2])
    /\ IsMiss(2, CandidatesOf(2)[3])
    /\ \E it \in Range(ItemsOf(2)) :
        /\ it.url = CandidatesOf(2)[3].url
        /\ it.titleJa = req[2].out[3]
        /\ it.summaryJa = req[2].out[4]

(* C18.  When the provider answers successfully with a result that has no
   translations, or a number of strings other than the number submitted, the
   request still returns 200, the items it submitted go without titleJa and
   summaryJa, and the cache is left as the request found it. *)
MalformedAnswer(r) ==
    Answered(r) /\ req[r].provider = "ok" /\ Len(req[r].out) # Len(req[r].need)

C18_MalformedAnswerIgnored ==
    \A r \in Requests : MalformedAnswer(r) =>
        /\ req[r].response.status = 200
        /\ \A it \in Range(ItemsOf(r)) : PairKey(it) \in Submitted(r) => ~HasJa(it)
        /\ req[r].cacheEnd = req[r].cache0

(* C19.  An emitted item has a titleJa or a summaryJa field only if the
   translation stage handled the item and the provider or a live cache entry
   returned a value for that field; otherwise, an item with no summary
   included, the field is absent and never present with a null value. *)
IsCandidate(r, it) == \E n \in 1..Len(CandidatesOf(r)) : CandidatesOf(r)[n].url = it.url

CandidateRankOf(r, it) == CHOOSE n \in 1..Len(CandidatesOf(r)) : CandidatesOf(r)[n].url = it.url

\* the item was served from the cache; the item was written back from an answer
ServedFromCache(r, it) == IsCandidate(r, it) /\ ~IsMiss(r, it)
WrittenBack(r, it) ==
    IsCandidate(r, it) /\ IsMiss(r, it) /\ req[r].provider = "ok" /\ Len(req[r].out) > 0

C19_JaFieldsNeverNull ==
    \A r \in Requests : Answered200(r) =>
        \A it \in Range(ItemsOf(r)) : \A field \in {"titleJa", "summaryJa"} :
            field \in DOMAIN it =>
                /\ ServedFromCache(r, it) \/ WrittenBack(r, it)
                /\ it[field] # Null

(* C19, amended.  An emitted item has both titleJa and summaryJa when the
   translation stage served it from a live cache entry or wrote the provider's
   answer back to it, and neither field otherwise.  A field holds the cached
   value, or the string returned at the item's position; it is present with
   the value null when no string, or an empty one, was returned for it, as for
   the summaryJa of an item with no summary. *)
Returned(out, p) == IF p <= Len(out) /\ out[p] # "" THEN out[p] ELSE Null

C19_JaFieldsValueOrNull ==
    \A r \in Requests : Answered200(r) =>
        \A it \in Range(ItemsOf(r)) :
            /\ \A field \in {"titleJa", "summaryJa"} :
                (field \in DOMAIN it) = (ServedFromCache(r, it) \/ WrittenBack(r, it))
            /\ ServedFromCache(r, it) =>
                /\ it.titleJa = req[r].cache0[PairKey(it)].titleJa
                /\ it.summaryJa = req[r].cache0[PairKey(it)].summaryJa
            /\ WrittenBack(r, it) =>
                LET k == MissesBefore(r, CandidateRankOf(r, it))
                IN  /\ it.titleJa = Returned(req[r].out, 2 * k + 1)
                    /\ it.summaryJa = Returned(req[r].out, 2 * k + 2)
            /\ (WrittenBack(r, it) /\ WellFormedAnswer(r) /\ it.summary = Null) =>
                it.titleJa # Null /\ it.summaryJa = Null

\* an item with no summary, translated by a well-formed answer: titleJa holds a
\* string and summaryJa is present and null; another item of the same response
\* has neither field
C19_Witness ==
    /\ Answered200(2) /\ WellFormedAnswer(2)
    /\ \E it \in Range(ItemsOf(2)) :
        /\ WrittenBack(2, it) /\ it.summary = Null
        /\ it.titleJa # Null
        /\ "summaryJa" \in DOMAIN it /\ it.summaryJa = Null
    /\ \E it \in Range(ItemsOf(2)) : ~HasJa(it)
    /\ \E it \in Range(ItemsOf(2)) : ServedFromCache(2, it)

(* C20.  One request makes at most one call to the translation provider, with
   the texts of all its cache misses in that call, at most one parseURL call
   per feed of its list, and at most one fetch of the remote table; a call
   that failed is not made again by the request. *)
C20_NoRetry ==
    \A r \in Requests :
        /\ req[r].providerCalls <= 1
        /\ req[r].csvCalls <= 1
        /\ \A f \in 1..Len(req[r].feedCalls) : req[r].feedCalls[f] <= 1
        /\ PastLoad(r) => Len(req[r].feedCalls) = Len(req[r].FEEDS)
        /\ req[r].providerCalls = 1 => Len(req[r].need) = 2 * Len(req[r].index)
        /\ (LookedUp(r) /\ req[r].providerCalls = 0) =>
                Len(req[r].need) = 0 \/ ~env.DEEPL_AUTH_KEY
        /\ req[r].load = "failed" => req[r].csvCalls = 1 /\ PastLoad(r)
        /\ req[r].provider = "failed" => req[r].providerCalls = 1 /\ Answered(r)
        /\ \A f \in 1..Len(req[r].status) :
                req[r].status[f] = "failed" => req[r].feedCalls[f] = 1

\* a request whose table fetch, one feed fetch and provider call all failed, and
\* which is answered after one call of each
C20_Witness ==
    \E r \in Requests :
        /\ Answered200(r)
        /\ req[r].load = "failed" /\ req[r].csvCalls = 1
        /\ req[r].provider = "failed" /\ req[r].providerCalls = 1
        /\ \E f \in 1..Len(req[r].status) : req[r].status[f] = "failed"
        /\ \E f \in 1..Len(req[r].status) : req[r].status[f] = "ok"
        /\ Len(req[r].need) >= 2

(* C21.  When no provider credential is configured, the translation stage
   changes nothing, for every request of the process: the provider is never
   called, the cache stays empty, no item has titleJa or summaryJa, and the
   response is the 200 document of the de-duplicated items as they were
   normalized. *)
C21_NoCredentialNoOp ==
    ~env.DEEPL_AUTH_KEY =>
        /\ tlCache = <<>>
        /\ \A r \in Requests :
            /\ req[r].pc # "translating"
            /\ req[r].providerCalls = 0 /\ req[r].provider = "none"
            /\ Answered(r) =>
                LET plain == dedupe(req[r].allItems)
                IN  /\ req[r].response.status = 200
                    /\ req[r].response.totalItems = Len(plain)
                    /\ req[r].response.feedCount = Len(req[r].FEEDS)
                    /\ Len(ItemsOf(r)) = Len(plain)
                    /\ Range(ItemsOf(r)) = {WithoutFallback(it) : it \in Range(plain)}
                    /\ \A it \in Range(ItemsOf(r)) : ~HasJa(it)

\* without a credential, the second request is answered with English items it
\* had texts to translate for, the same as the first already had
C21_Witness ==
    /\ ~env.DEEPL_AUTH_KEY
    /\ Answered200(1) /\ Answered200(2)
    /\ Len(req[1].need) >= 2 /\ Len(req[2].need) >= 4
    /\ \E it \in Range(ItemsOf(2)) : looksEnglish(it.title) /\ it.summary # Null
    /\ \E it \in Range(ItemsOf(2)) : ~looksEnglish(it.title)

(* C22.  With a remote table configured: once loadFeeds has completed a load,
   successful or failed, at time t, a later call made before t + 10 minutes returns
   the cached list without a fetch of the table, and a call made at
   t + 10 minutes or later fetches the table again. *)
Loaded(p) == req[p].load \in {"ok", "failed"}

\* r called loadFeeds after the load of p had completed, and no other load
\* completed in between
CalledAfterLoad(r, p) ==
    /\ p # r /\ Loaded(p) /\ req[r].pc # "idle" /\ req[r].t0 >= req[p].tLoad
    /\ \A q \in Requests \ {p, r} :
            ~(Loaded(q) /\ req[q].tLoad >= req[p].tLoad /\ req[q].tLoad <= req[r].t0)

C22_CachedFromCompletion ==
    \A p, r \in Requests : CalledAfterLoad(r, p) =>
        /\ req[r].t0 < req[p].tLoad + FEEDS_CACHE_MS =>
                /\ req[r].csvCalls = 0 /\ req[r].load = "cached"
                /\ req[r].FEEDS = req[p].FEEDS
        /\ req[r].t0 >= req[p].tLoad + FEEDS_CACHE_MS => req[r].csvCalls = 1

(* C22, amended.  With a remote table configured: once a loadFeeds call that
   began at time t has completed its load, successful or failed, a later call
   made before t + 10 minutes returns the cached list without a fetch of the
   table, and one made at t + 10 minutes or later fetches the table again.
   The 10 minutes run from the beginning of the last load completed, not from
   its completion. *)
C22_CachedFromCallTime ==
    \A p, r \in Requests : CalledAfterLoad(r, p) =>
        /\ req[r].t0 < req[p].t0 + FEEDS_CACHE_MS =>
                /\ req[r].csvCalls = 0 /\ req[r].load = "cached"
                /\ req[r].FEEDS = req[p].FEEDS
        /\ req[r].t0 >= req[p].t0 + FEEDS_CACHE_MS => req[r].csvCalls = 1

\* the load of the first request began at t and failed 5 minutes later; the
\* second request, arriving then, was served the static list from the cache
C22_Witness ==
    /\ req[1].load = "failed"
    /\ req[1].tLoad = req[1].t0 + FeedStep
    /\ CalledAfterLoad(2, 1)
    /\ req[2].load = "cached" /\ req[2].csvCalls = 0
    /\ req[2].t0 = req[1].tLoad
    /\ req[2].FEEDS = FEEDS_FALLBACK

(* C23.  When the feed list is built from the remote table, a row is left out
   on account of its enabled column only when that column is the literal
   FALSE; with any other value, a blank one or no such column, the row is
   enabled. *)
RowsOf(r) == parseCsv(req[r].csv) \o <<>>

\* a row with a source and a url
Usable(row) == Field(row, "source", "") # "" /\ Field(row, "url", "") # ""

\* the list of request r holds a descriptor made from row
Listed(r, row) ==
    \E f \in Range(req[r].FEEDS) : f.source = row.source /\ f.url = row.url

\* the enabled column of row is FALSE as written; is FALSE in any case of letters
IsLiteralFalse(row) == Field(row, "enabled", "") = "FALSE"
IsFalseWord(row) ==
    LET s == Field(row, "enabled", "")
    IN  Len(s) = 5 /\ \A i \in 1..5 :
            SubSeq(s, i, i) \in {SubSeq("FALSE", i, i), SubSeq("false", i, i)}

C23_OnlyLiteralFalseDisables ==
    \A r \in Requests : req[r].load = "ok" =>
        LET rows == RowsOf(r)
            kept == {n \in 1..Len(rows) : Usable(rows[n]) /\ ~IsLiteralFalse(rows[n])}
        IN  IF kept = {} THEN req[r].FEEDS = FEEDS_FALLBACK
            ELSE /\ Len(req[r].FEEDS) = Cardinality(kept)
                 /\ \A n \in 1..Len(rows) : Usable(rows[n]) =>
                        (Listed(r, rows[n]) <=> ~IsLiteralFalse(rows[n]))

(* C23, amended.  When the feed list is built from the remote table, a row is
   left out on account of its enabled column exactly when that column, with
   surrounding white space removed and letters of either case, reads FALSE
   (FALSE, false, " False "); with any other value, a blank one or no such
   column, the row is enabled. *)
C23_FalseInAnyCaseDisables ==
    \A r \in Requests : req[r].load = "ok" =>
        LET rows == RowsOf(r)
            kept == {n \in 1..Len(rows) : Usable(rows[n]) /\ ~IsFalseWord(rows[n])}
        IN  IF kept = {} THEN req[r].FEEDS = FEEDS_FALLBACK
            ELSE /\ Len(req[r].FEEDS) = Cardinality(kept)
                 /\ \A n \in 1..Len(rows) : Usable(rows[n]) =>
                        (Listed(r, rows[n]) <=> ~IsFalseWord(rows[n]))

\* a table with a row whose enabled column is false in small letters, left out,
\* and a row whose enabled column is blank, listed
C23_Witness ==
    \E r \in Requests :
        /\ req[r].load = "ok" /\ req[r].pc # "loading"
        /\ \E n \in 1..Len(RowsOf(r)) :
            /\ Usable(RowsOf(r)[n]) /\ Field(RowsOf(r)[n], "enabled", "") = "false"
            /\ ~Listed(r, RowsOf(r)[n])
        /\ \E n \in 1..Len(RowsOf(r)) :
            /\ Usable(RowsOf(r)[n]) /\ Field(RowsOf(r)[n], "enabled", "") = ""
            /\ Listed(r, RowsOf(r)[n])

(* C24.  Under every interleaving of overlapping requests that write the same
   cache key, each entry of the cache is a complete {t, titleJa, summaryJa}
   value written by one request: t is that request's lookup time and the two
   translations are what the provider returned to that request for the title
   and the summary of the key itself, never one field from each of two
   writers and never the translation of another key's text. *)
WroteEntry(r, key) ==
    /\ req[r].provider = "ok" /\ key \in Submitted(r)
    /\ LET k   == MissRank(r, key)
           out == req[r].out
           e   == tlCache[key]
       IN  /\ req[r].need[2 * k + 1] \o "|||" \o req[r].need[2 * k + 2] = key
           /\ e = [t |-> req[r].now, titleJa |-> Returned(out, 2 * k + 1),
                   summaryJa |-> Returned(out, 2 * k + 2)]
           /\ \E variant \in {"ja", "JA"} :
                /\ e.titleJa \in {Null, Translate(req[r].need[2 * k + 1], variant)}
                /\ e.summaryJa \in {Null, Translate(req[r].need[2 * k + 2], variant)}

C24_EntriesWrittenWhole ==
    \A key \in DOMAIN tlCache :
        /\ DOMAIN tlCache[key] = {"t", "titleJa", "summaryJa"}
        /\ \E r \in Requests : WroteEntry(r, key)

\* both requests missed the same key before either wrote it, the provider
\* answered them in different wordings, and the entry is the one of the
\* request answered last
C24_Witness ==
    /\ Answered200(1) /\ Answered200(2)
    /\ req[1].out = Translated(req[1].need, "ja")
    /\ req[2].out = Translated(req[2].need, "JA")
    /\ \E key \in Submitted(1) \cap Submitted(2) :
        /\ tlCache[key].titleJa = Translate(req[2].need[2 * MissRank(2, key) + 1], "JA")
        /\ tlCache[key].summaryJa = Translate(req[2].need[2 * MissRank(2, key) + 2], "JA")
        /\ \E it \in Range(ItemsOf(1)) :
            PairKey(it) = key /\ it.titleJa # tlCache[key].titleJa

(* C25.  When two requests overlap and both hold the same (title, summary)
   pair with no live cache entry, at most one of them submits the pair to the
   provider: no pair is translated successfully for both within the TTL. *)
TranslatedFor(r, key) ==
    /\ req[r].providerCalls = 1 /\ key \in Submitted(r)
    /\ WellFormedAnswer(r)

C25_OneSubmitterPerPair ==
    \A key \in DOMAIN tlCache :
        Cardinality({r \in Requests : TranslatedFor(r, key)}) <= 1

(* C26.  For given feed contents, request time, hours and cache, the genres of
   the response (which items, in which order, and which source's copy of a
   url served twice) are the same for every order in which the feed fetches
   complete, also when entries have the same publishedAt. *)
\* the orders in which the fetches of r can complete
CompletionOrders(r) ==
    {o \in [FeedsOf(r) -> FeedsOf(r)] : \A i, j \in FeedsOf(r) : o[i] = o[j] => i = j}

\* allItems when the fetches complete in order o, from position i on
RECURSIVE AllItemsIn(_, _, _)
AllItemsIn(r, o, i) ==
    IF i > Len(o) THEN <<>>
    ELSE (IF req[r].status[o[i]] = "ok"
          THEN ItemsOfFeed(req[r].fetched[o[i]], req[r].FEEDS[o[i]], req[r].since)
          ELSE <<>>) \o AllItemsIn(r, o, i + 1)

\* the genres of the response when the fetches complete in order o, and the
\* genres of the response of r, translations left aside
GenresIn(r, o) == GroupLoop(dedupe(AllItemsIn(r, o, 1)), <<>>)

GenresSent(r) ==
    [n \in 1..Len(req[r].response.genres) |->
        [name  |-> req[r].response.genres[n].name,
         items |-> [k \in 1..Len(req[r].response.genres[n].items) |->
                        Core(req[r].response.genres[n].items[k])]]]

C26_SameForEveryOrder ==
    Answered200(1) =>
        \A o \in CompletionOrders(1) : GenresSent(1) = GenresIn(1, o)

(* C26, amended.  For given feed contents, request time, hours and cache, the
   genres of the response are the same for every order in which the feed
   fetches complete provided no two items collected from different feeds
   have the same publishedAt.  Items of different feeds with the same
   publishedAt appear in the order in which their fetches completed, and of
   the copies of a url served with the same publishedAt by several feeds only
   the one of the feed that completed first can be kept: it is kept unless a
   newer copy exists. *)
CrossTies(r) ==
    \E i, j \in 1..Len(req[r].allItems) :
        /\ req[r].allItems[i].source # req[r].allItems[j].source
        /\ req[r].allItems[i].publishedAt = req[r].allItems[j].publishedAt

\* the fetch of the feed of a settled before that of the feed of b
SettledBefore(r, a, b) ==
    \E m, n \in 1..Len(req[r].order) :
        /\ m < n
        /\ req[r].FEEDS[req[r].order[m]].source = a.source
        /\ req[r].FEEDS[req[r].order[n]].source = b.source

C26_SameUnlessTies ==
    Answered200(1) =>
        /\ ~CrossTies(1) => \A o \in CompletionOrders(1) : GenresSent(1) = GenresIn(1, o)
        /\ GenresSent(1) = GenresIn(1, req[1].order)
        /\ \A a, b \in Range(req[1].allItems) :
            (a.source # b.source /\ a.publishedAt = b.publishedAt /\ a.url = b.url
                /\ SettledBefore(1, a, b)) =>
                    \A it \in Range(ItemsOf(1)) : it.id # b.id
        /\ \A a \in Range(req[1].allItems) :
            (\A c \in Range(req[1].allItems) : (c.url = a.url /\ c.source # a.source) =>
                \/ localeCompare(c.publishedAt, a.publishedAt) < 0
                \/ c.publishedAt = a.publishedAt /\ SettledBefore(1, a, c)) =>
                    \E it \in Range(ItemsOf(1)) : it.id = a.id

\* both feeds answered, the second first, with copies of one url of different
\* dates and no two items of one date: the response is that of either order
C26_Witness ==
    /\ Answered200(1)
    /\ req[1].order = <<2, 1>>
    /\ ~CrossTies(1)
    /\ \E a, b \in Range(req[1].allItems) :
            a.source # b.source /\ a.url = b.url /\ a.publishedAt # b.publishedAt
    /\ Len(ItemsOf(1)) >= 3
====
